---- MODULE Spec2Model ----
(***************************************************************************)
(* Verification model of course-sync.                                      *)
(*                                                                         *)
(*  Part I   internal/concurrency/parallel.go : ProcessParallel, ForEach   *)
(*  Part II  internal/httpx (retry)           : DoWithRetry, sleepBackoff  *)
(*  Part III the paginating fetches : FetchEightfoldCourses, pluralsight   *)
(*           and udemy ListCourses, eightfold ListAllEmployees             *)
(*  Part IV  internal/sync : needsUpdate, BuildSystemID as functions       *)
(*  Part V   internal/sync : Diff                                          *)
(***************************************************************************)
EXTENDS Integers, Sequences, FiniteSets, TLC

VARIABLES
    \* ---- Part I: ProcessParallel / ForEach ----
    fn,            \* which entry point is running: "ProcessParallel" | "ForEach"
    items,         \* the input slice, a function 0..n-1 -> item
    failing,       \* indexes at which itemFunc returns a non-nil error
    opts,          \* ParallelOptions
    ctxDone,       \* ctx.Done() is closed
    cancellable,   \* ctx can be cancelled (context.Background() cannot)
    pc,            \* position of the calling goroutine
    maxWorkers,    \* number of worker goroutines started
    jobs,          \* buffered channel of indexes
    jobsClosed,
    idle,          \* workers blocked in `range jobs`
    exited,        \* workers that have returned (wg.Done)
    taken,         \* indexes a worker received and has not yet polled ctx.Done() for
    passed,        \* indexes whose poll took `default`, itemFunc not yet called
    running,       \* indexes whose itemFunc invocation is in progress
    calls,         \* index -> number of itemFunc invocations started
    results,       \* buffered channel: results (ProcessParallel) / errors (ForEach)
    resultsClosed,
    i,             \* loop counter of the collection loop
    resultList,    \* []R being filled / returned
    errors,        \* []error being filled / returned
    ctxAtCall,     \* history: ctx was already done when the call was made
    order,         \* history: indexes in the order their results were sent (ProcessParallel)
    \* ---- Part II: httpx.DoWithRetry ----
    cfgArg,        \* the RetryConfig the caller passed
    cfg,           \* the local cfg, after the defaults were filled in
    attempt,       \* loop variable of DoWithRetry
    rpc,           \* position: "call" | "attempt" | "sleep" | "done"
    lastErr,
    ret,           \* returned (resp, body, err)
    reqCtxErr,     \* ctx.Err() of the request context: "nil" | "canceled" | "deadline"
    wait,          \* the sleepBackoff call of this pass: its inputs and the sleep it chose
    last,          \* what this pass through the loop body met
    exchanges,     \* history: number of client.Do calls
    sleeps,        \* history: number of backoff sleeps that were started
    sustained,     \* history: the status every exchange so far returned; 0 none yet, -1 mixed
    \* ---- Part III: the paginating fetches ----
    pgFn,          \* which fetch is running
    pgPc,          \* position: "call" | "first" | "loop" | "spawn" | "wait" | "provider" | "done",
                   \*           "panic" when time.NewTicker panicked
    maxPagesArg,   \* the maxPages the caller passed (Provider.MaxPages)
    srv,           \* the backend: its pages, the request that fails, its response shape
    maxPages,      \* the local maxPages
    page,          \* loop variable `page`
    startIndex,    \* FetchEightfoldCourses: startIndex; ListAllEmployees: start
    cursor,        \* pluralsight: cursor (0 is nil); ListAllEmployees: next (0 is "")
    totalPages,    \* udemy Client.ListCourses
    inflight,      \* udemy: pages whose goroutine holds its slot of `sem`
    sent,          \* udemy: pages whose request is at the server
    ending,        \* udemy: pages whose goroutine has left its body, its
                   \*        deferred calls not yet run
    leaving,       \* udemy: pages whose goroutine has given its slot back
                   \*        and has not yet called wg.Done
    firstErr,      \* udemy: firstErr, 0 is nil, the page whose fetch failed,
                   \*        or one of the errors of a cancelled context
    cancelled,     \* udemy: the context of ListCourses is done
    out,           \* the records collected so far (`out`, `all`)
    clientRet,     \* udemy: what Client.ListCourses returned to Provider.ListCourses
    pgRet,         \* what the fetch returned to its caller
    fetched,       \* history: pages whose records were received and appended
    stopBy,        \* history: what ended the loop: "cap" | "signal" | "error" | "cancel"
    sizeArg,       \* the page size the caller passed (limit, pageSizeHint, First, PageSize)
    workersEnv,    \* the value of the environment variable UDEMY_WORKERS
    rpsEnv,        \* the value of the environment variable UDEMY_RPS
    reqs,          \* history: the list requests issued, in order
    \* ---- Part V: sync.Diff ----
    provider,      \* the upstream slice passed to Diff
    eightfold,     \* the destination slice passed to Diff
    dpc,           \* position: "call" | "join" | "del" | "ret" | "done"
    provByID,      \* map identity -> upstream record
    efByID,        \* map identity -> destination record
    todoProv,      \* keys `range provByID` has not yet produced
    todoEF,        \* keys `range efByID` has not yet produced
    create,
    update,
    del,
    run,           \* history: which of two successive calls with the same inputs this is
    prevOut,       \* history: what the first call returned
    \* ---- Part IV: needsUpdate and BuildSystemID, applied to one input ----
    pfn,           \* the function applied
    pin,           \* its arguments
    pout,          \* its result
    ppc,           \* "call" | "done"
    \* ---- Part VI: udemy Client.fetchPageWithRetry ----
    fpc,           \* position: "call" | "once" | "sleep" | "done"
    fAttempt,      \* loop variable `attempt`
    fLast,         \* what the last fetchPageOnce met
    fSleep,        \* the sleep chosen, in ms
    fCtxDone,      \* the context is cancelled
    fRet,          \* what fetchPageWithRetry returned
    fTries,        \* history: number of fetchPageOnce calls
    fSleeps        \* history: number of sleeps started

parVars == <<fn, items, failing, opts, ctxDone, pc, maxWorkers, jobs, jobsClosed,
             idle, exited, running, calls, results, resultsClosed, i,
             resultList, errors, ctxAtCall, order, taken, passed, cancellable>>

retryVars == <<cfgArg, cfg, attempt, rpc, lastErr, ret, reqCtxErr, wait, last,
               exchanges, sleeps, sustained>>

pageVars == <<pgFn, pgPc, maxPagesArg, srv, maxPages, page, startIndex, cursor,
              totalPages, inflight, sent, ending, leaving, firstErr, cancelled, out,
              clientRet, pgRet, fetched, stopBy, sizeArg, reqs, workersEnv, rpsEnv>>

diffVars == <<provider, eightfold, dpc, provByID, efByID, todoProv, todoEF,
              create, update, del, run, prevOut>>

pureVars == <<pfn, pin, pout, ppc>>

fetchVars == <<fpc, fAttempt, fLast, fSleep, fCtxDone, fRet, fTries, fSleeps>>

\* the variables of the parts after Part II
restVars == <<pageVars, diffVars, pureVars, fetchVars>>

vars == <<parVars, retryVars, restVars>>

\* Part III is not running.
NoSrv == [pages |-> 0, failAt |-> 0, mode |-> 0, single |-> FALSE]
NoPgRet == [isNil |-> TRUE, elems |-> <<>>, err |-> 0]
PageOff ==
    /\ pgFn = "off" /\ pgPc = "off" /\ maxPagesArg = 0 /\ srv = NoSrv
    /\ maxPages = 0 /\ page = 0 /\ startIndex = 0 /\ cursor = 0 /\ totalPages = 0
    /\ inflight = {} /\ sent = {} /\ ending = {} /\ leaving = {}
    /\ firstErr = 0 /\ cancelled = FALSE /\ out = <<>>
    /\ clientRet = NoPgRet /\ pgRet = NoPgRet /\ fetched = {} /\ stopBy = "none"
    /\ sizeArg = 0 /\ reqs = <<>> /\ workersEnv = <<>> /\ rpsEnv = <<>>
\* Part V is not running.
NoMap == <<>>
NoOut == [create |-> <<>>, update |-> <<>>, del |-> <<>>]
DiffOff ==
    /\ provider = <<>> /\ eightfold = <<>> /\ dpc = "off" /\ provByID = NoMap
    /\ efByID = NoMap /\ todoProv = {} /\ todoEF = {} /\ create = <<>>
    /\ update = <<>> /\ del = <<>> /\ run = 0 /\ prevOut = NoOut
\* Part IV is not running.
PureOff == pfn = "off" /\ pin = <<>> /\ pout = <<>> /\ ppc = "off"
\* Part VI is not running.
NoFetch == [type |-> "none"]
FetchOff ==
    /\ fpc = "off" /\ fAttempt = 0 /\ fLast = NoFetch /\ fSleep = 0
    /\ fCtxDone = FALSE /\ fRet = NoFetch /\ fTries = 0 /\ fSleeps = 0
RestOff == PageOff /\ DiffOff /\ PureOff /\ FetchOff

\* ------------------------------------------------------------------ bounds
MaxItems == 3

\* the MaxWorkers options tried
WorkerOpts == {-1, 1, 2, MaxItems + 1}

\* ------------------------------------------------------------------ helpers
DefaultMaxWorkers == 10

ZeroR == 0
NilErr == 0

\* A Go slice that may be nil: `var errors []error` is nil until the first append.
NilSlice == [isNil |-> TRUE, elems |-> <<>>]
EmptySlice == [isNil |-> FALSE, elems |-> <<>>]
GoAppend(s, e) == [isNil |-> FALSE, elems |-> Append(s.elems, e)]

Len0(its) == Cardinality(DOMAIN its)

\* itemFunc of the tests: the result is the item, failing indexes return
\* the zero result and an error (identified by its index).
ItemFuncResult(idx, item) == IF idx \in failing THEN ZeroR ELSE item
ItemFuncErr(idx, item) == IF idx \in failing THEN idx + 1 ELSE NilErr

\* maxWorkers := opts.MaxWorkers; default when <= 0; clamp to len(items)
EffectiveWorkers_OnePerItem(mw, n) == n
EffectiveWorkers(mw, n) ==
    LET w == IF mw <= 0 THEN DefaultMaxWorkers ELSE mw
    IN IF w > n THEN n ELSE w

\* return []R{}, nil   /   return nil
EmptyReturn_NonNil == [resultList |-> <<>>, errors |-> EmptySlice]
EmptyReturn == [resultList |-> <<>>, errors |-> NilSlice]

\* resultList[res.index] = res.result
StoreResult_ByCompletion(list, k, res) == [list EXCEPT ![k] = res.result]
StoreResult(list, k, res) == [list EXCEPT ![res.index] = res.result]

\* The value received from a closed, drained channel.
ZeroRes == [index |-> 0, result |-> ZeroR, err |-> NilErr]

\* ------------------------------------------------------------------ Init
\* the input slices tried: of every length, all items equal and the two alternations
ItemSeqs ==
    UNION { { [k \in 0..(n-1) |-> 1],
              [k \in 0..(n-1) |-> 1 + (k % 2)],
              [k \in 0..(n-1) |-> 2 - (k % 2)] } : n \in 0..MaxItems }

\* Part II is not running.
RetryOff ==
    /\ cfgArg = <<>> /\ cfg = <<>> /\ attempt = 0 /\ rpc = "off" /\ lastErr = <<>>
    /\ ret = <<>> /\ reqCtxErr = "nil" /\ wait = <<>> /\ last = <<>>
    /\ exchanges = 0 /\ sleeps = 0 /\ sustained = 0

\* One batch larger than the default pool, run with the default options.
BigBatch == [k \in 0..DefaultMaxWorkers |-> 1]

InitPar ==
    /\ \/ /\ fn \in {"ProcessParallel", "ForEach"}
          /\ items \in ItemSeqs
          /\ failing \in SUBSET (DOMAIN items)
          /\ opts \in [MaxWorkers : WorkerOpts]
          /\ ctxDone \in BOOLEAN
          /\ cancellable = TRUE
       \/ /\ fn = "ForEach"
          /\ items = BigBatch
          /\ failing = {}
          /\ opts = [MaxWorkers |-> 0]
          /\ ctxDone = FALSE
          /\ cancellable = FALSE
    /\ ctxAtCall = ctxDone
    /\ taken = {} /\ passed = {}
    /\ order = <<>>
    /\ pc = "call"
    /\ maxWorkers = 0
    /\ jobs = <<>>
    /\ jobsClosed = FALSE
    /\ idle = 0
    /\ exited = 0
    /\ running = {}
    /\ calls = [k \in DOMAIN items |-> 0]
    /\ results = <<>>
    /\ resultsClosed = FALSE
    /\ i = 0
    /\ resultList = <<>>
    /\ errors = NilSlice
    /\ RetryOff
    /\ RestOff

\* ------------------------------------------------------------------ caller
\* len(items) == 0: return at once.
CallEmpty ==
    /\ pc = "call"
    /\ Len0(items) = 0
    /\ pc' = "done"
    /\ resultList' = EmptyReturn.resultList
    /\ errors' = EmptyReturn.errors
    /\ UNCHANGED <<fn, items, failing, opts, ctxDone, maxWorkers, jobs, jobsClosed,
                   idle, exited, running, calls, results, resultsClosed, i, ctxAtCall, taken, passed, cancellable, order,
                   retryVars, restVars>>

\* Compute maxWorkers, make the channels, start the workers.
CallStart ==
    /\ pc = "call"
    /\ Len0(items) # 0
    /\ maxWorkers' = EffectiveWorkers(opts.MaxWorkers, Len0(items))
    /\ idle' = maxWorkers'
    /\ pc' = "send"
    /\ UNCHANGED <<fn, items, failing, opts, ctxDone, jobs, jobsClosed, exited,
                   running, calls, results, resultsClosed, i, resultList, errors, ctxAtCall, taken, passed, cancellable, order,
                   retryVars, restVars>>

\* for i := range items { jobs <- i }   (buffer of len(items): never blocks)
SendJob ==
    /\ pc = "send"
    /\ i < Len0(items)
    /\ jobs' = Append(jobs, i)
    /\ i' = i + 1
    /\ UNCHANGED <<fn, items, failing, opts, ctxDone, pc, maxWorkers, jobsClosed,
                   idle, exited, running, calls, results, resultsClosed,
                   resultList, errors, ctxAtCall, taken, passed, cancellable, order,
                   retryVars, restVars>>

\* close(jobs); ProcessParallel then allocates resultList and starts collecting,
\* ForEach blocks in wg.Wait().
CloseJobs ==
    /\ pc = "send"
    /\ i = Len0(items)
    /\ jobsClosed' = TRUE
    /\ i' = 0
    /\ IF fn = "ProcessParallel"
         THEN /\ pc' = "collect"
              /\ resultList' = [k \in DOMAIN items |-> ZeroR]
         ELSE /\ pc' = "wait"
              /\ UNCHANGED resultList
    /\ UNCHANGED <<fn, items, failing, opts, ctxDone, maxWorkers, jobs, idle, exited,
                   running, calls, results, resultsClosed, errors, ctxAtCall, taken, passed, cancellable, order,
                   retryVars, restVars>>

\* ------------------------------------------------------------------ workers
\* `for jobIndex := range jobs` receives an index. A context that cannot be
\* cancelled has no Done channel: its select always takes `default`, and
\* the receive, the select and the call are taken as one step.
WorkerTake ==
    /\ idle > 0
    /\ jobs # <<>>
    /\ jobs' = Tail(jobs)
    /\ idle' = idle - 1
    /\ IF cancellable
         THEN /\ taken' = taken \cup {Head(jobs)}
              /\ UNCHANGED <<running, calls>>
         ELSE /\ running' = running \cup {Head(jobs)}
              /\ calls' = [calls EXCEPT ![Head(jobs)] = @ + 1]
              /\ UNCHANGED taken
    /\ UNCHANGED <<fn, items, failing, opts, ctxDone, pc, maxWorkers, jobsClosed, exited, passed,
                   results, resultsClosed, i, resultList, errors, ctxAtCall, order,
                   cancellable, retryVars, restVars>>

\* Mutant: the worker goes on to itemFunc without looking at ctx.Done().
WorkerSelect_NoCtxCheck ==
    /\ \E j \in taken :
        /\ taken' = taken \ {j}
        /\ passed' = passed \cup {j}
        /\ UNCHANGED exited
    /\ UNCHANGED <<fn, items, failing, opts, ctxDone, pc, maxWorkers, jobs, jobsClosed, idle, running, calls,
                   results, resultsClosed, i, resultList, errors, ctxAtCall, order,
                   cancellable, retryVars, restVars>>
\* `select { case <-ctx.Done(): return; default: ... }`
WorkerSelect ==
    /\ \E j \in taken :
        /\ taken' = taken \ {j}
        /\ IF ctxDone
             THEN /\ exited' = exited + 1
                  /\ UNCHANGED passed
             ELSE /\ passed' = passed \cup {j}
                  /\ UNCHANGED exited
    /\ UNCHANGED <<fn, items, failing, opts, ctxDone, pc, maxWorkers, jobs, jobsClosed, idle, running, calls,
                   results, resultsClosed, i, resultList, errors, ctxAtCall, order,
                   cancellable, retryVars, restVars>>

\* The `default` branch calls itemFunc(ctx, jobIndex, items[jobIndex]).
WorkerCall ==
    /\ \E j \in passed :
        /\ passed' = passed \ {j}
        /\ running' = running \cup {j}
        /\ calls' = [calls EXCEPT ![j] = @ + 1]
    /\ UNCHANGED <<fn, items, failing, opts, ctxDone, pc, maxWorkers, jobs, jobsClosed, idle, exited, taken,
                   results, resultsClosed, i, resultList, errors, ctxAtCall, order,
                   cancellable, retryVars, restVars>>

\* What a worker puts on the channel when itemFunc returned (r, e):
\* ProcessParallel sends every outcome, ForEach only a non-nil error.
WorkerSend_NilToo(ch, j, r, e) ==
    IF fn = "ProcessParallel"
      THEN Append(ch, [index |-> j, result |-> r, err |-> e])
      ELSE Append(ch, e)
WorkerSend(ch, j, r, e) ==
    IF fn = "ProcessParallel"
      THEN Append(ch, [index |-> j, result |-> r, err |-> e])
      ELSE IF e # NilErr THEN Append(ch, e) ELSE ch

\* Mutant: a worker stops at the first item that fails.
WorkerFinish_AbortOnError ==
    \E j \in running :
        LET r == ItemFuncResult(j, items[j])
            e == ItemFuncErr(j, items[j])
        IN /\ running' = running \ {j}
           /\ order' = IF fn = "ProcessParallel" THEN Append(order, j) ELSE order
           /\ IF e # NilErr
                THEN exited' = exited + 1 /\ UNCHANGED idle
                ELSE idle' = idle + 1 /\ UNCHANGED exited
           /\ results' = WorkerSend(results, j, r, e)
           /\ UNCHANGED <<fn, items, failing, opts, ctxDone, pc, maxWorkers, jobs,
                          jobsClosed, calls, resultsClosed, i, resultList,
                          errors, ctxAtCall, taken, passed, cancellable,
                   retryVars, restVars>>

\* itemFunc returns; the worker sends the outcome and loops.
WorkerFinish ==
    \E j \in running :
        LET r == ItemFuncResult(j, items[j])
            e == ItemFuncErr(j, items[j])
        IN /\ running' = running \ {j}
           /\ order' = IF fn = "ProcessParallel" THEN Append(order, j) ELSE order
           /\ idle' = idle + 1
           /\ results' = WorkerSend(results, j, r, e)
           /\ UNCHANGED <<fn, items, failing, opts, ctxDone, pc, maxWorkers, jobs,
                          jobsClosed, exited, calls, resultsClosed, i, resultList,
                          errors, ctxAtCall, taken, passed, cancellable,
                   retryVars, restVars>>

\* `range jobs` ends: the channel is closed and drained.
WorkerExit ==
    /\ idle > 0
    /\ jobs = <<>>
    /\ jobsClosed
    /\ idle' = idle - 1
    /\ exited' = exited + 1
    /\ UNCHANGED <<fn, items, failing, opts, ctxDone, pc, maxWorkers, jobs, jobsClosed,
                   running, calls, results, resultsClosed, i, resultList, errors, ctxAtCall, taken, passed, cancellable, order,
                   retryVars, restVars>>

\* ------------------------------------------------------------------ ProcessParallel
\* go func() { wg.Wait(); close(results) }()
WaiterClose ==
    /\ fn = "ProcessParallel"
    /\ pc \in {"collect", "done"}
    /\ maxWorkers > 0
    /\ exited = maxWorkers
    /\ ~resultsClosed
    /\ resultsClosed' = TRUE
    /\ UNCHANGED <<fn, items, failing, opts, ctxDone, pc, maxWorkers, jobs, jobsClosed,
                   idle, exited, running, calls, results, i, resultList, errors, ctxAtCall, taken, passed, cancellable, order,
                   retryVars, restVars>>

\* Mutant: the collector only ever receives a value a worker sent.
Collect_NoClose ==
    /\ pc = "collect"
    /\ i < Len0(items)
    /\ results # <<>>
    /\ LET res == Head(results)
       IN /\ errors' = IF res.err # NilErr THEN GoAppend(errors, res.err) ELSE errors
          /\ resultList' = StoreResult(resultList, i, res)
    /\ results' = Tail(results)
    /\ i' = i + 1
    /\ UNCHANGED <<fn, items, failing, opts, ctxDone, pc, maxWorkers, jobs, jobsClosed,
                   idle, exited, running, calls, resultsClosed, ctxAtCall, taken, passed, cancellable, order,
                   retryVars, restVars>>
\* res := <-results; if res.err != nil {append}; resultList[res.index] = res.result
Collect ==
    /\ pc = "collect"
    /\ i < Len0(items)
    /\ results # <<>> \/ resultsClosed
    /\ LET res == IF results # <<>> THEN Head(results) ELSE ZeroRes
       IN /\ errors' = IF res.err # NilErr THEN GoAppend(errors, res.err) ELSE errors
          /\ resultList' = StoreResult(resultList, i, res)
    /\ results' = IF results # <<>> THEN Tail(results) ELSE results
    /\ i' = i + 1
    /\ UNCHANGED <<fn, items, failing, opts, ctxDone, pc, maxWorkers, jobs, jobsClosed,
                   idle, exited, running, calls, resultsClosed, ctxAtCall, taken, passed, cancellable, order,
                   retryVars, restVars>>

\* return resultList, errors
CollectReturn ==
    /\ pc = "collect"
    /\ i = Len0(items)
    /\ pc' = "done"
    /\ UNCHANGED <<fn, items, failing, opts, ctxDone, maxWorkers, jobs, jobsClosed,
                   idle, exited, running, calls, results, resultsClosed, i,
                   resultList, errors, ctxAtCall, taken, passed, cancellable, order,
                   retryVars, restVars>>

\* ------------------------------------------------------------------ ForEach
\* wg.Wait(); close(errors)
ForEachWait ==
    /\ pc = "wait"
    /\ exited = maxWorkers
    /\ resultsClosed' = TRUE
    /\ pc' = "drain"
    /\ UNCHANGED <<fn, items, failing, opts, ctxDone, maxWorkers, jobs, jobsClosed,
                   idle, exited, running, calls, results, i, resultList, errors, ctxAtCall, taken, passed, cancellable, order,
                   retryVars, restVars>>

\* for err := range errors { errorList = append(errorList, err) }
ForEachDrain ==
    /\ pc = "drain"
    /\ results # <<>>
    /\ errors' = GoAppend(errors, Head(results))
    /\ results' = Tail(results)
    /\ UNCHANGED <<fn, items, failing, opts, ctxDone, pc, maxWorkers, jobs, jobsClosed,
                   idle, exited, running, calls, resultsClosed, i, resultList, ctxAtCall, taken, passed, cancellable, order,
                   retryVars, restVars>>

\* return errorList
ForEachReturn ==
    /\ pc = "drain"
    /\ results = <<>>
    /\ pc' = "done"
    /\ UNCHANGED <<fn, items, failing, opts, ctxDone, maxWorkers, jobs, jobsClosed,
                   idle, exited, running, calls, results, resultsClosed, i,
                   resultList, errors, ctxAtCall, taken, passed, cancellable, order,
                   retryVars, restVars>>

\* ------------------------------------------------------------------ context
\* The caller's context is cancelled while the call is in progress.
Cancel ==
    /\ cancellable
    /\ ~ctxDone
    /\ pc # "done"
    /\ ctxDone' = TRUE
    /\ UNCHANGED <<fn, items, failing, opts, pc, maxWorkers, jobs, jobsClosed, idle,
                   exited, running, calls, results, resultsClosed, i, resultList,
                   errors, ctxAtCall, taken, passed, cancellable, order,
                   retryVars, restVars>>

NextPar ==
    \/ CallEmpty
    \/ CallStart
    \/ SendJob
    \/ CloseJobs
    \/ WorkerTake
    \/ WorkerSelect
    \/ WorkerCall
    \/ WorkerFinish
    \/ WorkerExit
    \/ WaiterClose
    \/ Collect
    \/ CollectReturn
    \/ ForEachWait
    \/ ForEachDrain
    \/ ForEachReturn
    \/ Cancel

SpecPar == InitPar /\ [][NextPar]_vars

\* Every goroutine that can run is eventually run and itemFunc returns; the
\* caller's cancellation may or may not come.
ParProgress ==
    \/ CallEmpty
    \/ CallStart
    \/ SendJob
    \/ CloseJobs
    \/ WorkerTake
    \/ WorkerSelect
    \/ WorkerCall
    \/ WorkerFinish
    \/ WorkerExit
    \/ WaiterClose
    \/ Collect
    \/ CollectReturn
    \/ ForEachWait
    \/ ForEachDrain
    \/ ForEachReturn
\* Termination is looked at on the batches of equal items, with no item,
\* the first item or every item failing.
InitParLive ==
    /\ InitPar
    /\ cancellable
    /\ \A k \in DOMAIN items : items[k] = 1
    /\ failing \in {{}, DOMAIN items, (DOMAIN items) \cap {0}}
SpecParLive == InitParLive /\ [][NextPar]_vars /\ WF_vars(ParProgress)

\* ================================================================== Part II
\* httpx: DoWithRetry, sleepBackoff, isRetryableStatus, ParseRetryAfter.

\* ------------------------------------------------------------------ time.Duration
\* A time.Duration is an int64 count of nanoseconds.  It is kept as the three
\* limbs of its 64-bit two's complement pattern, a * 2^60 + b * 2^30 + c, so
\* that products wrap exactly as they do in Go.
Limb == 1073741824
TopLimb == 16

DNorm(a, b, c) ==
    LET b1 == b + (c \div Limb)
        a1 == a + (b1 \div Limb)
    IN [a |-> a1 % TopLimb, b |-> b1 % Limb, c |-> c % Limb]
DZero == [a |-> 0, b |-> 0, c |-> 0]
DMaxInt64 == [a |-> 7, b |-> Limb - 1, c |-> Limb - 1]
DMinInt64 == [a |-> 8, b |-> 0, c |-> 0]
DFromInt(n) == DNorm(0, 0, n)
DAdd(x, y) == DNorm(x.a + y.a, x.b + y.b, x.c + y.c)
DDbl(x) == DAdd(x, x)
RECURSIVE DShl(_, _)
DShl(x, k) == IF k <= 0 \/ x = DZero THEN x ELSE DShl(DDbl(x), k - 1)
RECURSIVE DMul(_, _)
\* x * m for an int m >= 0
DMul(x, m) ==
    IF m = 0 THEN DZero
    ELSE LET h == DDbl(DMul(x, m \div 2))
         IN IF m % 2 = 1 THEN DAdd(h, x) ELSE h
DNeg(x) == x.a >= 8
DLess(x, y) ==
    IF DNeg(x) # DNeg(y) THEN DNeg(x)
    ELSE \/ x.a < y.a
         \/ x.a = y.a /\ x.b < y.b
         \/ x.a = y.a /\ x.b = y.b /\ x.c < y.c
DLeqZero(x) == DNeg(x) \/ x = DZero

Millisecond == DFromInt(1000000)
Second == DFromInt(1000000000)

\* ------------------------------------------------------------------ RetryConfig
\* A map[int]bool that may be nil.
NilMap == [isNil |-> TRUE, keys |-> {}]
MapOf(S) == [isNil |-> FALSE, keys |-> S]

DefaultRetryConfig ==
    [MaxAttempts |-> 8,
     BaseDelay |-> DMul(Millisecond, 700),
     MaxDelay |-> DMul(Second, 30),
     Retry5xx |-> TRUE,
     RetryStatuses |-> MapOf({429, 408, 425, 503, 502, 504})]

\* The first lines of DoWithRetry: fill in the defaults.
NormalizeCfg(c) ==
    LET c1 == IF c.MaxAttempts <= 0 THEN DefaultRetryConfig ELSE c
        c2 == IF DLeqZero(c1.BaseDelay)
                THEN [c1 EXCEPT !.BaseDelay = DMul(Millisecond, 700)] ELSE c1
        c3 == IF DLeqZero(c2.MaxDelay)
                THEN [c2 EXCEPT !.MaxDelay = DMul(Second, 30)] ELSE c2
    IN IF c3.RetryStatuses.isNil
         THEN [c3 EXCEPT !.RetryStatuses = DefaultRetryConfig.RetryStatuses] ELSE c3

isRetryableStatus_All5xx(code, c) ==
    \/ (~c.RetryStatuses.isNil /\ code \in c.RetryStatuses.keys)
    \/ (code >= 500 /\ code <= 599)
isRetryableStatus(code, c) ==
    \/ (~c.RetryStatuses.isNil /\ code \in c.RetryStatuses.keys)
    \/ (c.Retry5xx /\ code >= 500 /\ code <= 599)

\* ------------------------------------------------------------------ Retry-After
\* A Retry-After header value, by what the parsers make of it:
\*   none      no header (or blank)
\*   secs n    strconv.Atoi succeeds with n
\*   date d    http.ParseTime succeeds, the date lies d ms from now (time.Until)
\*   bad       neither parses
NoHeader == [kind |-> "none", n |-> 0]
ParseRetryAfter(h) ==
    CASE h.kind = "none" -> DZero
      [] h.kind = "secs" /\ h.n >= 0 -> DMul(Second, h.n)
      [] h.kind = "date" -> IF h.n < 0 THEN DZero ELSE DMul(Millisecond, h.n)
      [] OTHER -> DZero

\* ------------------------------------------------------------------ errors
NilError == [type |-> "nil"]
HTTPError(status, body) == [type |-> "HTTPError", StatusCode |-> status, Body |-> body]
CtxError(kind) == [type |-> "ctx", kind |-> kind]
NetError(kind) == [type |-> "net", kind |-> kind]

\* ------------------------------------------------------------------ strings
\* A Go string is the sequence of its characters.
\* The letters of the model's alphabet. A character outside ASCII is written
\* by its name: "Eacute" is U+00C9, "eacute" U+00E9, "Ntilde" U+00D1,
\* "ntilde" U+00F1, "Ecirc" U+00CA, "ecirc" U+00EA, "Kelvin" U+212A,
\* "dotlessi" U+0131, "longs" U+017F. UpperChars[k] and LowerChars[k] are
\* each other's case; unicode.ToLower and unicode.ToUpper are not inverse
\* everywhere: the Kelvin sign lowers to k, dotless i and long s raise to I
\* and S.
UpperChars == <<"A", "B", "C", "D", "E", "F", "G", "H", "I", "J", "K", "L", "M",
                "N", "O", "P", "Q", "R", "S", "T", "U", "V", "W", "X", "Y", "Z",
                "Eacute", "Ntilde", "Ecirc">>
LowerChars == <<"a", "b", "c", "d", "e", "f", "g", "h", "i", "j", "k", "l", "m",
                "n", "o", "p", "q", "r", "s", "t", "u", "v", "w", "x", "y", "z",
                "eacute", "ntilde", "ecirc">>
LowerOf ==
    [c \in {UpperChars[k] : k \in 1..Len(UpperChars)} |->
        LowerChars[CHOOSE k \in 1..Len(UpperChars) : UpperChars[k] = c]]
UpperOf ==
    [c \in {LowerChars[k] : k \in 1..Len(LowerChars)} |->
        UpperChars[CHOOSE k \in 1..Len(LowerChars) : LowerChars[k] = c]]
LowerCh(c) ==
    IF c \in DOMAIN LowerOf THEN LowerOf[c]
    ELSE IF c = "Kelvin" THEN "k"
    ELSE c
UpperCh(c) ==
    IF c \in DOMAIN UpperOf THEN UpperOf[c]
    ELSE IF c = "dotlessi" THEN "I"
    ELSE IF c = "longs" THEN "S"
    ELSE c
ToLower(s) == [k \in 1..Len(s) |-> LowerCh(s[k])]
ToUpper(s) == [k \in 1..Len(s) |-> UpperCh(s[k])]
\* unicode.IsSpace: \t \n \v \f \r, the space, U+0085, U+00A0 and the
\* characters of category Z; the ones without an escape are written by
\* their code point.
SpaceChars ==
    {" ", "\t", "\n", "\r", "\f", "U+000B", "U+0085", "U+00A0", "U+1680",
     "U+2000", "U+2001", "U+2002", "U+2003", "U+2004", "U+2005", "U+2006",
     "U+2007", "U+2008", "U+2009", "U+200A", "U+2028", "U+2029", "U+202F",
     "U+205F", "U+3000"}
IsSpace(c) == c \in SpaceChars
TrimSpace(s) ==
    LET keep == {k \in 1..Len(s) : ~IsSpace(s[k])}
    IN IF keep = {} THEN <<>>
       ELSE SubSeq(s, CHOOSE k \in keep : \A j \in keep : k <= j,
                      CHOOSE k \in keep : \A j \in keep : j <= k)
Contains(s, sub) ==
    \E k \in 0..(Len(s) - Len(sub)) : SubSeq(s, k + 1, k + Len(sub)) = sub
HasPrefix(s, prefix) ==
    Len(s) >= Len(prefix) /\ SubSeq(s, 1, Len(prefix)) = prefix

\* ------------------------------------------------------------------ transport errors
\* What isRetryableNetErr can observe of an error: errors.Is against the two
\* context errors, errors.As against net.Error with its Timeout() and
\* Temporary(), and the text of Error().
GoErr(isCanceled, isDeadline, asNet, timeout, temporary, msg) ==
    [isCanceled |-> isCanceled, isDeadline |-> isDeadline, asNet |-> asNet,
     timeout |-> timeout, temporary |-> temporary, msg |-> msg]
MsgEOF == <<"E", "O", "F">>
MsgReset == <<"C", "o", "n", "n", "e", "c", "t", "i", "o", "n", " ",
              "r", "e", "s", "e", "t">>
MsgPipe == <<"b", "r", "o", "k", "e", "n", " ", "p", "i", "p", "e">>
MsgOther == <<"o", "t", "h", "e", "r">>
\* "BRO\u212AEN PIPE", the K written as the Kelvin sign
MsgKelvinPipe == <<"B", "R", "O", "Kelvin", "E", "N", " ", "P", "I", "P", "E">>
\* The transport errors by kind:
\*   canceled   context.Canceled
\*   deadline   context.DeadlineExceeded (itself a net.Error that timed out)
\*   timeout    a net.Error with Timeout()
\*   temporary  a net.Error with Temporary() only
\*   nettemp0   a net.Error with neither
\*   urleof     *url.Error around io.EOF, as http.Client.Do returns it: url.Error
\*              has Timeout() and Temporary(), so errors.As finds a net.Error
\*   reset, pipe, eof, kelvin, other   errors.New with that text
ErrOf(kind) ==
    CASE kind = "canceled" -> GoErr(TRUE, FALSE, FALSE, FALSE, FALSE, MsgOther)
      [] kind = "deadline" -> GoErr(FALSE, TRUE, TRUE, TRUE, TRUE, MsgOther)
      [] kind = "timeout" -> GoErr(FALSE, FALSE, TRUE, TRUE, FALSE, MsgOther)
      [] kind = "temporary" -> GoErr(FALSE, FALSE, TRUE, FALSE, TRUE, MsgOther)
      [] kind = "nettemp0" -> GoErr(FALSE, FALSE, TRUE, FALSE, FALSE, MsgOther)
      [] kind = "urleof" -> GoErr(FALSE, FALSE, TRUE, FALSE, FALSE, MsgEOF)
      [] kind = "reset" -> GoErr(FALSE, FALSE, FALSE, FALSE, FALSE, MsgReset)
      [] kind = "pipe" -> GoErr(FALSE, FALSE, FALSE, FALSE, FALSE, MsgPipe)
      [] kind = "kelvin" -> GoErr(FALSE, FALSE, FALSE, FALSE, FALSE, MsgKelvinPipe)
      [] kind = "eof" -> GoErr(FALSE, FALSE, FALSE, FALSE, FALSE, MsgEOF)
      [] OTHER -> GoErr(FALSE, FALSE, FALSE, FALSE, FALSE, MsgOther)

isRetryableNetErr(e) ==
    LET a == ErrOf(e.kind)
    IN IF a.isCanceled THEN FALSE
       ELSE IF a.isDeadline THEN TRUE
       ELSE IF a.asNet THEN a.timeout \/ a.temporary
       ELSE LET msg == ToLower(a.msg)
            IN \/ Contains(msg, ToLower(MsgReset))
               \/ Contains(msg, MsgPipe)
               \/ Contains(msg, ToLower(MsgEOF))

\* ------------------------------------------------------------------ sleepBackoff
\* The sleep sleepBackoff chooses; jitter is rand.Intn(400), in ms.
SleepFor_IgnoreRetryAfter(att, base, max, retryAfter, jitter) ==
    LET raw == DShl(base, att - 1)
        capped == IF DLess(max, raw) THEN max ELSE raw
    IN DAdd(capped, DMul(Millisecond, jitter))
SleepFor(att, base, max, retryAfter, jitter) ==
    IF DLeqZero(retryAfter)
      THEN LET raw == DShl(base, att - 1)
               capped == IF DLess(max, raw) THEN max ELSE raw
           IN DAdd(capped, DMul(Millisecond, jitter))
      ELSE retryAfter

\* ------------------------------------------------------------------ inputs
MaxAttemptsOpt == 3

JitterMs == {0, 399}
Bodies == {"A", "B"}
Statuses == {199, 200, 299, 300, 400, 404, 429, 500, 503, 599}
Headers == {NoHeader,
            [kind |-> "secs", n |-> 0], [kind |-> "secs", n |-> 2],
            [kind |-> "secs", n |-> -1],
            [kind |-> "date", n |-> -60000], [kind |-> "date", n |-> 1500],
            [kind |-> "bad", n |-> 0]}
NetKinds == {"canceled", "deadline", "timeout", "temporary", "nettemp0", "urleof",
             "reset", "pipe", "eof", "kelvin", "other"}

\* What one pass through the loop body can meet.
Outcomes ==
    {[type |-> "build"]}
    \cup {[type |-> "net", kind |-> k] : k \in NetKinds}
    \cup {[type |-> "read", kind |-> k, status |-> 200, body |-> "A"] : k \in {"eof", "other"}}
    \cup {[type |-> "resp", status |-> st, header |-> NoHeader, body |-> b] :
              st \in Statuses, b \in Bodies}
    \cup {[type |-> "resp", status |-> 429, header |-> h, body |-> "A"] : h \in Headers}
    \cup {[type |-> "resp", status |-> st, header |-> [kind |-> "secs", n |-> 2],
           body |-> "B"] : st \in {404, 503}}

TestCfg(m) ==
    [MaxAttempts |-> m, BaseDelay |-> Millisecond, MaxDelay |-> DMul(Millisecond, 5),
     Retry5xx |-> TRUE, RetryStatuses |-> DefaultRetryConfig.RetryStatuses]
ZeroCfg ==
    [MaxAttempts |-> 0, BaseDelay |-> DZero, MaxDelay |-> DZero,
     Retry5xx |-> FALSE, RetryStatuses |-> NilMap]
RetryCfgs ==
    {TestCfg(m) : m \in 1..MaxAttemptsOpt}
    \cup {ZeroCfg,
          [ZeroCfg EXCEPT !.MaxAttempts = -1, !.RetryStatuses = MapOf({404})],
          [ZeroCfg EXCEPT !.MaxAttempts = 2],
          [TestCfg(2) EXCEPT !.Retry5xx = FALSE],
          [TestCfg(2) EXCEPT !.Retry5xx = FALSE, !.RetryStatuses = MapOf({})],
          [TestCfg(2) EXCEPT !.RetryStatuses = MapOf({404})],
          [TestCfg(MaxAttemptsOpt) EXCEPT !.BaseDelay = DShl(DFromInt(1), 62),
                                          !.MaxDelay = DMaxInt64]}

\* Part I is not running.
ParOff ==
    /\ fn = "off" /\ items = <<>> /\ failing = {} /\ opts = [MaxWorkers |-> 0]
    /\ ctxDone = FALSE /\ pc = "off" /\ maxWorkers = 0 /\ jobs = <<>>
    /\ jobsClosed = FALSE /\ idle = 0 /\ exited = 0 /\ running = {} /\ calls = <<>>
    /\ results = <<>> /\ resultsClosed = FALSE /\ i = 0 /\ resultList = <<>>
    /\ errors = NilSlice /\ ctxAtCall = FALSE /\ order = <<>>
    /\ taken = {} /\ passed = {} /\ cancellable = FALSE

NoWait == [after |-> "none", attempt |-> 0, header |-> NoHeader, retryAfter |-> DZero,
           jitter |-> 0, dur |-> DZero]
NoOutcome == [type |-> "none"]
NoRet == [resp |-> 0, body |-> "", err |-> NilError]

InitRetry ==
    /\ ParOff
    /\ RestOff
    /\ cfgArg \in RetryCfgs
    /\ cfg = cfgArg
    /\ reqCtxErr \in {"nil", "canceled", "deadline"}
    /\ attempt = 0
    /\ rpc = "call"
    /\ lastErr = NilError
    /\ ret = NoRet
    /\ wait = NoWait
    /\ last = NoOutcome
    /\ exchanges = 0
    /\ sleeps = 0
    /\ sustained = 0

\* ------------------------------------------------------------------ DoWithRetry
\* Defaults, then `for attempt := 1; ...`.
RetryCall ==
    /\ rpc = "call"
    /\ cfg' = NormalizeCfg(cfgArg)
    /\ attempt' = 1
    /\ rpc' = "attempt"
    /\ UNCHANGED <<cfgArg, lastErr, ret, reqCtxErr, wait, last, exchanges, sleeps,
                   sustained,
                   parVars, restVars>>

\* sleepBackoff up to its select: the timer is created; when ctx is done the
\* select returns ctx.Err() at once, unless the timer is already due (a sleep
\* that is not positive), in which case either case may be taken.
SleepBackoff(after, hdr, retryAfter) ==
    \E jitter \in (IF DLeqZero(retryAfter) THEN JitterMs ELSE {0}) :
    LET dur == SleepFor(attempt, cfg.BaseDelay, cfg.MaxDelay, retryAfter, jitter)
    IN /\ wait' = [after |-> after, attempt |-> attempt, header |-> hdr,
                   retryAfter |-> retryAfter, jitter |-> jitter, dur |-> dur]
       /\ \/ /\ reqCtxErr # "nil"
             /\ rpc' = "done"
             /\ ret' = [resp |-> 0, body |-> "", err |-> CtxError(reqCtxErr)]
             /\ UNCHANGED sleeps
          \/ /\ reqCtxErr = "nil" \/ DLeqZero(dur)
             /\ rpc' = "sleep"
             /\ sleeps' = sleeps + 1
             /\ UNCHANGED ret

\* Mutant: the loop gives up one attempt early.
RetryOrReturn_OffByOne(err, retVal, after, hdr, retryAfter) ==
    /\ lastErr' = err
    /\ IF attempt + 1 < cfg.MaxAttempts
         THEN SleepBackoff(after, hdr, retryAfter)
         ELSE /\ rpc' = "done"
              /\ ret' = retVal
              /\ UNCHANGED <<wait, sleeps>>

\* Mutant: on the last attempt the error remembered from the attempt before is
\* returned.
RetryOrReturn_StaleErr(err, retVal, after, hdr, retryAfter) ==
    /\ lastErr' = err
    /\ IF attempt < cfg.MaxAttempts
         THEN SleepBackoff(after, hdr, retryAfter)
         ELSE /\ rpc' = "done"
              /\ ret' = [retVal EXCEPT !.err = IF lastErr # NilError THEN lastErr ELSE err]
              /\ UNCHANGED <<wait, sleeps>>

\* A retryable failure: remember it, then back off and continue, or, on the
\* last attempt, return it.
RetryOrReturn(err, retVal, after, hdr, retryAfter) ==
    /\ lastErr' = err
    /\ IF attempt < cfg.MaxAttempts
         THEN SleepBackoff(after, hdr, retryAfter)
         ELSE /\ rpc' = "done"
              /\ ret' = retVal
              /\ UNCHANGED <<wait, sleeps>>

ReturnNow(retVal) ==
    /\ rpc' = "done"
    /\ ret' = retVal
    /\ UNCHANGED <<lastErr, wait, sleeps>>

Sustain(o) ==
    IF o.type = "resp" /\ sustained \in {0, o.status} THEN o.status ELSE -1

\* One pass through the loop body: buildReq, client.Do, readAndClose, classify.
Attempt ==
    /\ rpc = "attempt"
    /\ \E o \in Outcomes :
        /\ last' = o
        /\ IF attempt > cfg.MaxAttempts
             THEN /\ ReturnNow([resp |-> 0, body |-> "",
                                err |-> IF lastErr # NilError THEN lastErr
                                        ELSE [type |-> "failed"]])
                  /\ UNCHANGED <<exchanges, sustained>>
           ELSE IF o.type = "build"
             THEN /\ ReturnNow([resp |-> 0, body |-> "", err |-> [type |-> "build"]])
                  /\ UNCHANGED <<exchanges, sustained>>
           ELSE /\ exchanges' = exchanges + 1
                /\ sustained' = Sustain(o)
                /\ IF o.type = "net"
                     THEN IF isRetryableNetErr(o)
                            THEN RetryOrReturn(NetError(o.kind),
                                     [resp |-> 0, body |-> "", err |-> NetError(o.kind)],
                                     "net", NoHeader, DZero)
                            ELSE ReturnNow([resp |-> 0, body |-> "",
                                            err |-> NetError(o.kind)])
                   ELSE IF o.type = "read"
                     THEN IF isRetryableNetErr(o)
                            THEN RetryOrReturn(NetError(o.kind),
                                     [resp |-> o.status, body |-> o.body,
                                      err |-> NetError(o.kind)],
                                     "read", NoHeader, DZero)
                            ELSE ReturnNow([resp |-> o.status, body |-> o.body,
                                            err |-> NetError(o.kind)])
                   ELSE IF o.status >= 200 /\ o.status < 300
                     THEN ReturnNow([resp |-> o.status, body |-> o.body,
                                     err |-> NilError])
                   ELSE LET herr == HTTPError(o.status, o.body)
                            retryAfter == ParseRetryAfter(o.header)
                        IN IF isRetryableStatus(o.status, cfg)
                             THEN RetryOrReturn(herr,
                                      [resp |-> o.status, body |-> o.body, err |-> herr],
                                      "resp", o.header, retryAfter)
                             ELSE ReturnNow([resp |-> o.status, body |-> o.body,
                                             err |-> herr])
    /\ UNCHANGED <<cfgArg, cfg, attempt, reqCtxErr,
                   parVars, restVars>>

\* Mutant: the sleep is a plain time.Sleep that ignores the context.
TimerFires_IgnoreCtx ==
    /\ rpc = "sleep"
    /\ rpc' = "attempt"
    /\ attempt' = attempt + 1
    /\ wait' = NoWait
    /\ last' = NoOutcome
    /\ UNCHANGED <<cfgArg, cfg, lastErr, ret, reqCtxErr, exchanges, sleeps,
                   sustained,
                   parVars, restVars>>

\* case <-t.C: the sleep is over; `continue` runs attempt++.
TimerFires ==
    /\ rpc = "sleep"
    /\ reqCtxErr = "nil" \/ DLeqZero(wait.dur)
    /\ rpc' = "attempt"
    /\ attempt' = attempt + 1
    /\ wait' = NoWait
    /\ last' = NoOutcome
    /\ UNCHANGED <<cfgArg, cfg, lastErr, ret, reqCtxErr, exchanges, sleeps,
                   sustained,
                   parVars, restVars>>

\* case <-ctx.Done(): the sleep is cut short and DoWithRetry returns ctx.Err().
SleepAbort ==
    /\ rpc = "sleep"
    /\ reqCtxErr # "nil"
    /\ rpc' = "done"
    /\ ret' = [resp |-> 0, body |-> "", err |-> CtxError(reqCtxErr)]
    /\ UNCHANGED <<cfgArg, cfg, attempt, lastErr, reqCtxErr, wait, last, exchanges,
                   sleeps, sustained,
                   parVars, restVars>>

\* The request context is cancelled, or its deadline passes.
RetryCancel ==
    /\ reqCtxErr = "nil"
    /\ rpc # "done"
    /\ reqCtxErr' \in {"canceled", "deadline"}
    /\ UNCHANGED <<cfgArg, cfg, attempt, rpc, lastErr, ret, wait, last, exchanges,
                   sleeps, sustained,
                   parVars, restVars>>

NextRetry ==
    \/ RetryCall
    \/ Attempt
    \/ TimerFires
    \/ SleepAbort
    \/ RetryCancel

SpecRetry == InitRetry /\ [][NextRetry]_vars

\* ================================================================== claims, Part I
Returned == pc = "done"
ElemSet(sq) == { sq[k] : k \in 1..Len(sq) }
\* the errors itemFunc returns for the failing indexes, as a set
FailingErrs == { ItemFuncErr(k, items[k]) : k \in failing }

\* C1: with a context that is never cancelled, ProcessParallel returns a slice
\* of len(items) entries whose entry k is what itemFunc returned for (k, items[k]),
\* whatever the order in which the workers finished.
C1_IndexAligned ==
    (Returned /\ fn = "ProcessParallel" /\ ~ctxDone) =>
        /\ DOMAIN resultList = DOMAIN items
        /\ \A k \in DOMAIN items : resultList[k] = ItemFuncResult(k, items[k])

\* the batch completed in an order that is not the input order, with distinct results
C1_Witness ==
    /\ Returned /\ fn = "ProcessParallel" /\ ~ctxDone
    /\ Len0(items) = MaxItems
    /\ failing = {}
    /\ items[0] # items[1]
    /\ Len(order) = MaxItems
    /\ order[1] > order[2]

\* C2: with a live context every index is passed to itemFunc exactly once, also
\* when some invocations fail, and ProcessParallel returns one error per failed
\* invocation.
C2_NoAbortOnError ==
    /\ ~ctxDone => \A k \in DOMAIN items : calls[k] <= 1
    /\ (Returned /\ fn = "ProcessParallel" /\ ~ctxDone) =>
          /\ \A k \in DOMAIN items : calls[k] = 1
          /\ Len(errors.elems) = Cardinality(failing)
          /\ ElemSet(errors.elems) = FailingErrs

\* a batch in which the first item failed and a later one succeeded
C2_Witness ==
    /\ Returned /\ fn = "ProcessParallel" /\ ~ctxDone
    /\ 0 \in failing
    /\ failing # DOMAIN items
    /\ maxWorkers = 1
    /\ Len(errors.elems) = Cardinality(failing)

\* C3, as amended: once the context is done, no item whose worker has not
\* yet polled ctx.Done() is passed to itemFunc: the only items that still
\* start are those whose worker had taken the `default` branch before the
\* cancellation, at most one for each worker. The slots of the items never
\* started hold the zero value and the returned slice has len(items)
\* entries; with a context cancelled before the call nothing runs.
C3_SlotsOfSkipped ==
    (Returned /\ fn = "ProcessParallel") =>
        /\ DOMAIN resultList = DOMAIN items
        /\ \A k \in DOMAIN items : calls[k] = 0 => resultList[k] = ZeroR
        /\ ctxAtCall => \A k \in DOMAIN items : calls[k] = 0 /\ resultList[k] = ZeroR
C3_NoStartUnpolled ==
    ctxDone =>
        /\ passed' \subseteq passed
        /\ \A k \in DOMAIN items : calls'[k] # calls[k] => k \in passed
        /\ Cardinality(passed) + Cardinality(running) + idle + exited <= maxWorkers
C3_CancelSkips == []C3_SlotsOfSkipped /\ [][C3_NoStartUnpolled]_vars

\* C3, as stated: once the context is done no further item is passed to
\* itemFunc.
C3_NoStartAfterCancel == ctxDone => calls' = calls
C3_Original == []C3_SlotsOfSkipped /\ [][C3_NoStartAfterCancel]_vars

\* a run cancelled in the middle: some items ran, some were skipped
C3_Witness ==
    /\ Returned /\ fn = "ProcessParallel" /\ ctxDone /\ ~ctxAtCall
    /\ \E k \in DOMAIN items : calls[k] = 0
    /\ \E k \in DOMAIN items : calls[k] = 1 /\ resultList[k] # ZeroR

\* C4: the number of itemFunc invocations in progress never exceeds the
\* effective worker count: MaxWorkers, 10 when MaxWorkers <= 0, at most len(items).
C4_Cap ==
    LET w == IF opts.MaxWorkers <= 0 THEN 10 ELSE opts.MaxWorkers
        n == Len0(items)
    IN Cardinality(running) <= (IF w > n THEN n ELSE w)
C4_WorkerCap == C4_Cap

\* the default pool is saturated by a batch larger than the pool
C4_Witness ==
    /\ opts.MaxWorkers <= 0
    /\ Len0(items) > 10
    /\ Cardinality(running) = 10
    /\ jobs # <<>>

\* C5: a zero-length input returns an empty result slice and a nil error list
\* (ForEach: nil) without starting a worker or invoking itemFunc.
C5_EmptyInput ==
    (Returned /\ Len0(items) = 0) =>
        /\ resultList = <<>>
        /\ errors = NilSlice
        /\ maxWorkers = 0 /\ idle = 0 /\ exited = 0
        /\ running = {} /\ order = <<>> /\ jobs = <<>> /\ results = <<>>

C5_Witness == Returned /\ Len0(items) = 0 /\ opts.MaxWorkers > 0

\* C6: ForEach with a live context invokes itemFunc once per index and returns
\* exactly the non-nil errors; with an already cancelled context it invokes
\* itemFunc for no item and returns no errors.
C6_ForEach ==
    /\ (Returned /\ fn = "ForEach" /\ ~ctxDone) =>
          /\ \A k \in DOMAIN items : calls[k] = 1
          /\ Len(errors.elems) = Cardinality(failing)
          /\ ElemSet(errors.elems) = FailingErrs
    /\ (fn = "ForEach" /\ ctxAtCall) =>
          /\ \A k \in DOMAIN items : calls[k] = 0
          /\ errors.elems = <<>>

\* a ForEach batch with a failing and a succeeding item has returned
C6_Witness ==
    /\ Returned /\ fn = "ForEach" /\ ~ctxDone
    /\ failing # {} /\ failing # DOMAIN items
    /\ Len(errors.elems) = Cardinality(failing)

\* ================================================================== claims, Part II
RetryReturned == rpc = "done"
RECURSIVE Pow2(_)
Pow2(k) == IF k <= 0 THEN 1 ELSE 2 * Pow2(k - 1)
\* the retry policy, as the claims state it
PolicyRetries(status, c) ==
    \/ status \in c.RetryStatuses.keys
    \/ (c.Retry5xx /\ 500 <= status /\ status <= 599)
Is2xx(status) == 200 <= status /\ status <= 299

\* C7: when every exchange of a call returned the same retryable non-2xx status
\* (and the context stayed live), DoWithRetry has made exactly cfg.MaxAttempts
\* exchanges and returns an *HTTPError with that status.
C7_SustainedStatus ==
    (/\ RetryReturned
     /\ reqCtxErr = "nil"
     /\ last.type = "resp"
     /\ sustained > 0
     /\ ~Is2xx(sustained)
     /\ PolicyRetries(sustained, cfg)) =>
        /\ exchanges = cfg.MaxAttempts
        /\ ret.err.type = "HTTPError"
        /\ ret.err.StatusCode = sustained

\* a sustained 503 against the default policy: eight exchanges, then the error
C7_Witness ==
    /\ RetryReturned /\ reqCtxErr = "nil"
    /\ cfgArg.MaxAttempts <= 0
    /\ sustained = 503
    /\ exchanges = 8
    /\ ret.err.type = "HTTPError"

\* C8: a non-2xx response is retried only if the policy names its status (and,
\* while attempts remain, always then); any other non-2xx response ends the
\* call at once, without a sleep, with an *HTTPError carrying its status and body.
C8_Response ==
    (rpc = "attempt" /\ exchanges' = exchanges + 1 /\ last'.type = "resp"
        /\ ~Is2xx(last'.status)) =>
        IF PolicyRetries(last'.status, cfg)
          THEN attempt < cfg.MaxAttempts =>
                 \/ rpc' = "sleep" /\ sleeps' = sleeps + 1
                 \/ reqCtxErr # "nil" /\ rpc' = "done"
          ELSE /\ rpc' = "done"
               /\ sleeps' = sleeps
               /\ wait' = wait
               /\ ret'.err = HTTPError(last'.status, last'.body)
               /\ ret'.resp = last'.status
               /\ ret'.body = last'.body
C8_FirstResponse ==
    (/\ RetryReturned /\ last.type = "resp" /\ sustained > 0
     /\ ~Is2xx(sustained) /\ ~PolicyRetries(sustained, cfg)) =>
        /\ exchanges = 1
        /\ sleeps = 0
        /\ ret.err = HTTPError(sustained, last.body)
C8_RetryIffPolicy == []C8_FirstResponse /\ [][C8_Response]_vars

\* a 500 with Retry5xx off: one exchange, no sleep, the HTTPError
C8_Witness ==
    /\ RetryReturned
    /\ ~cfg.Retry5xx
    /\ last.type = "resp" /\ last.status = 500
    /\ exchanges = 1 /\ sleeps = 0
    /\ ret.err = HTTPError(500, last.body)

\* C9: a context cancelled during a backoff sleep ends the call with the
\* context's error, the sleep is not completed and no exchange follows; once
\* the context is cancelled no backoff sleep is started.
C9_Interrupted ==
    (rpc = "sleep" /\ reqCtxErr # "nil" /\ ~DLeqZero(wait.dur)) =>
        /\ rpc' = "done"
        /\ ret'.err = CtxError(reqCtxErr)
        /\ exchanges' = exchanges
        /\ attempt' = attempt
C9_NoNewSleep ==
    (reqCtxErr # "nil" /\ rpc # "sleep" /\ rpc' = "sleep") => DLeqZero(wait'.dur)
C9_BackoffInterruptible == [][C9_Interrupted /\ C9_NoNewSleep]_vars

\* the call was sleeping after its latest exchange when the context was
\* cancelled, and returned the context's error with attempts to spare
C9_Witness ==
    /\ RetryReturned
    /\ ret.err = CtxError("canceled")
    /\ sleeps = exchanges /\ sleeps >= 2
    /\ ~DLeqZero(wait.dur)
    /\ exchanges < cfg.MaxAttempts

\* C10 (as stated): the wait equals the Retry-After value whenever the header
\* is present and valid (seconds >= 0, or an HTTP date, taken as a non-negative
\* duration), and is the capped exponential backoff plus jitter otherwise.
HeaderValid(h) == (h.kind = "secs" /\ h.n >= 0) \/ h.kind = "date"
HeaderValue(h) ==
    IF h.kind = "secs" THEN DMul(Second, h.n)
    ELSE IF h.n > 0 THEN DMul(Millisecond, h.n) ELSE DZero
\* baseDelay * 2^(attempt-1) as a Duration, capped at maxDelay, plus the jitter
BackoffWait(w, c) ==
    LET raw == DMul(c.BaseDelay, Pow2(w.attempt - 1))
        capped == IF DLess(c.MaxDelay, raw) THEN c.MaxDelay ELSE raw
    IN DAdd(capped, DMul(Millisecond, w.jitter))
C10_Original ==
    wait.after = "resp" =>
        IF HeaderValid(wait.header)
          THEN wait.dur = HeaderValue(wait.header)
          ELSE wait.dur = BackoffWait(wait, cfg)

\* C10 (amended): the wait equals the Retry-After value whenever the header
\* parses to a positive duration; when the header is absent, invalid, zero
\* seconds or a date that is not in the future, the wait is the capped
\* exponential backoff plus a jitter of 0..399 ms.
C10_SleepSelection ==
    wait.after = "resp" =>
        /\ wait.jitter \in 0..399
        /\ IF HeaderValid(wait.header) /\ ~DLeqZero(HeaderValue(wait.header))
             THEN wait.dur = HeaderValue(wait.header)
             ELSE wait.dur = BackoffWait(wait, cfg)

\* a 429 with `Retry-After: 0` is followed by a backoff sleep
C10_Witness ==
    /\ rpc = "sleep"
    /\ wait.after = "resp"
    /\ wait.header = [kind |-> "secs", n |-> 0]
    /\ wait.attempt = 2
    /\ wait.dur = DAdd(DMul(Millisecond, 2), DMul(Millisecond, 399))

\* The error a pass through the loop body observed.
OutcomeErr(o) ==
    IF o.type = "resp" THEN HTTPError(o.status, o.body) ELSE NetError(o.kind)
\* The pass failed in a way DoWithRetry retries.
FailedRetryably(o, c) ==
    \/ o.type \in {"net", "read"} /\ isRetryableNetErr(o)
    \/ o.type = "resp" /\ ~Is2xx(o.status) /\ isRetryableStatus(o.status, c)
Exchanged == exchanges' = exchanges + 1

\* C11: DoWithRetry never performs more than cfg.MaxAttempts exchanges; the
\* first 2xx response ends the call, which returns that response's body with a
\* nil error and performs no further exchange; and when every one of the
\* MaxAttempts attempts failed retryably, the error returned is the one the
\* final attempt observed.
C11_Bounded ==
    /\ rpc # "call" => exchanges <= cfg.MaxAttempts
    /\ (RetryReturned /\ exchanges = cfg.MaxAttempts /\ FailedRetryably(last, cfg))
          => ret.err = OutcomeErr(last)
C11_Stops ==
    /\ (Exchanged /\ last'.type = "resp" /\ Is2xx(last'.status))
          => /\ rpc' = "done"
             /\ ret' = [resp |-> last'.status, body |-> last'.body, err |-> NilError]
    /\ RetryReturned => exchanges' = exchanges
C11_AttemptAccounting == []C11_Bounded /\ [][C11_Stops]_vars
\* Witness: all attempts of a call with several were used up, the passes did
\* not all meet the same thing, and the error of the final one came back.
C11_Witness ==
    /\ RetryReturned /\ cfg.MaxAttempts >= 2 /\ exchanges = cfg.MaxAttempts
    /\ last.type = "resp" /\ FailedRetryably(last, cfg) /\ sustained = -1
    /\ lastErr = OutcomeErr(last) /\ ret.err = OutcomeErr(last)

\* C12: a transport error that is context.Canceled is returned at once; one
\* that is a timeout/temporary net.Error, context.DeadlineExceeded, or whose
\* message contains "connection reset", "broken pipe" or "EOF" in any case is
\* retried (while attempts remain and the context is live); every other
\* transport error is returned at once.
MsgTransient(m) ==
    \/ Contains(ToLower(m), ToLower(MsgReset))
    \/ Contains(ToLower(m), ToLower(MsgPipe))
    \/ Contains(ToLower(m), ToLower(MsgEOF))
C12_Retryable(a) ==
    \/ a.asNet /\ (a.timeout \/ a.temporary)
    \/ a.isDeadline
    \/ MsgTransient(a.msg)
C12_Step ==
    (Exchanged /\ last'.type = "net") =>
        LET a == ErrOf(last'.kind)
            returned == /\ rpc' = "done"
                        /\ ret' = [resp |-> 0, body |-> "", err |-> NetError(last'.kind)]
        IN IF a.isCanceled THEN returned
           ELSE IF C12_Retryable(a)
             THEN (attempt < cfg.MaxAttempts /\ reqCtxErr = "nil") => rpc' = "sleep"
           ELSE returned
C12_NetErrClassification == [][C12_Step]_vars

\* ================================================================== Part III
\* ------------------------------------------------------------------ the backend
MaxSrvPages == 3
PageRows == 2
\* the iterations of the loop of FetchEightfoldCourses that are followed
MaxRounds == 6

\* the maxPages values tried
MaxPagesOpts == {-1, 0, 1, 2}

Digits == <<"0", "1", "2", "3", "4", "5", "6", "7", "8", "9">>
DigitCh(r) == Digits[(r % 10) + 1]

\* Row r of the Eightfold course list, as the JSON object the API returns.
RawRow(r) ==
    LET d == DigitCh(r)
    IN CASE r % 6 = 1 -> [lmsCourseId |-> <<"U", "D", "M", "+", d>>, systemId |-> <<>>]
         [] r % 6 = 2 -> [lmsCourseId |-> <<"X", "+", d>>, systemId |-> <<>>]
         [] r % 6 = 3 -> [lmsCourseId |-> <<" ">>, systemId |-> <<"P", "L", "S", "+", d>>]
         [] r % 6 = 4 -> [lmsCourseId |-> <<" ", "U", "D", "M", "+", d>>, systemId |-> <<>>]
         [] r % 6 = 5 -> [lmsCourseId |-> <<"u", "d", "m", "+", d>>, systemId |-> <<>>]
         [] OTHER -> [lmsCourseId |-> <<>>, systemId |-> <<>>]

SrvTotal == srv.pages * PageRows
MinOf(a, b) == IF a < b THEN a ELSE b
\* the records from offset `from` on, one backend page of them
SrvSlice(from) ==
    LET n == IF from >= SrvTotal THEN 0 ELSE MinOf(PageRows, SrvTotal - from)
    IN [k \in 1..n |-> from + k]
\* the records of backend page p
PageRecords(p) == SrvSlice((p - 1) * PageRows)

\* eightfold.Client.ListCoursesPage: rows and meta; mode 2 is a backend that
\* does not report totalCount, mode 3 one that does not know the `start`
\* parameter and answers every request with its first page.
ListCoursesPage(pageStartIndex) ==
    LET from == IF srv.mode = 3 THEN 0 ELSE pageStartIndex
        ids == SrvSlice(from)
    IN [rows |-> [k \in 1..Len(ids) |-> RawRow(ids[k])],
        meta |-> [PageStartIndex |-> from, PageTotalCount |-> Len(ids),
                  TotalCount |-> IF srv.mode \in {1, 3} THEN SrvTotal ELSE 0]]

\* ------------------------------------------------------------------ eightfold_fetch.go
\* Mutant: the first value is returned whenever it is not the empty string.
firstNonEmpty_NoTrim(a, b) ==
    IF a # <<>> THEN a ELSE IF b # <<>> THEN b ELSE <<>>
firstNonEmpty(a, b) ==
    IF TrimSpace(a) # <<>> THEN a ELSE IF TrimSpace(b) # <<>> THEN b ELSE <<>>
mapEightfoldRows(rows) ==
    [k \in 1..Len(rows) |->
        [SystemID |-> rows[k].systemId, LMSCourseID |-> rows[k].lmsCourseId]]
PrefixUDM == <<"U", "D", "M", "+">>
PrefixPLS == <<"P", "L", "S", "+">>
IsManaged(c) ==
    LET id == TrimSpace(firstNonEmpty(c.LMSCourseID, c.SystemID))
    IN HasPrefix(id, PrefixUDM) \/ HasPrefix(id, PrefixPLS)
filterManagedEightfold(in) == SelectSeq(in, IsManaged)

\* A fetch returns (list, err): err 0 is nil, k > 0 is the error of the k-th
\* page request, -1 is udemy's "empty results on first page".
PgReturn(list, isNil, err, why) ==
    /\ pgPc' = "done"
    /\ pgRet' = [isNil |-> isNil, elems |-> list, err |-> err]
    /\ stopBy' = why
udemyVars == <<totalPages, inflight, sent, ending, leaving, firstErr, cancelled,
               clientRet>>
pgArgs == <<pgFn, maxPagesArg, srv, sizeArg, workersEnv, rpsEnv>>
\* A list request: what it addresses (an offset, a cursor, a URL built by the
\* client with page number n, the bare base URL, a link the server sent) and
\* the page size it carries, 0 when it carries none.
Req(link, n, size) == [link |-> link, n |-> n, size |-> size]

\* FetchEightfoldCourses up to its loop.
EFCall ==
    /\ pgFn = "FetchEightfoldCourses" /\ pgPc = "call"
    /\ maxPages' = IF maxPagesArg < 0 THEN 0 ELSE maxPagesArg
    /\ startIndex' = 0
    /\ page' = 0
    /\ out' = <<>>
    /\ pgPc' = "loop"
    /\ UNCHANGED <<pgArgs, cursor, udemyVars, pgRet, fetched, stopBy, reqs, parVars,
                   retryVars, diffVars, pureVars, fetchVars>>

\* `if limit <= 0 { limit = 200 }`
EFDefaultLimit == 200
EFLimit == IF sizeArg <= 0 THEN EFDefaultLimit ELSE sizeArg
\* The request of eightfold.Client.ListCoursesPage: `limit` and `start` are
\* set when they are positive.
CoursesRequest(pageStartIndex, limit) ==
    Req("offset", IF pageStartIndex > 0 THEN pageStartIndex ELSE 0,
        IF limit > 0 THEN limit ELSE 0)

\* One iteration of the loop of FetchEightfoldCourses.
EFLoop ==
    /\ pgFn = "FetchEightfoldCourses" /\ pgPc = "loop"
    /\ page < MaxRounds
    /\ page' = page + 1
    /\ reqs' = IF maxPages > 0 /\ page' > maxPages THEN reqs
               ELSE IF srv.failAt = page' /\ page' = 1
                 THEN reqs \o <<CoursesRequest(startIndex, EFLimit),
                                CoursesRequest(0, EFLimit)>>
               ELSE Append(reqs, CoursesRequest(startIndex, EFLimit))
    /\ IF maxPages > 0 /\ page' > maxPages
         THEN /\ PgReturn(out, FALSE, 0, "cap")
              /\ UNCHANGED <<startIndex, out, fetched>>
       ELSE IF srv.failAt = page'
         THEN /\ IF page' = 1 /\ srv.single
                   THEN /\ PgReturn(filterManagedEightfold(
                                      mapEightfoldRows(ListCoursesPage(0).rows)),
                                    FALSE, 0, "signal")
                        /\ fetched' = {1}
                   ELSE /\ PgReturn(<<>>, TRUE, page', "error")
                        /\ UNCHANGED fetched
              /\ UNCHANGED <<startIndex, out>>
       ELSE LET r == ListCoursesPage(startIndex)
                mapped == filterManagedEightfold(mapEightfoldRows(r.rows))
                next == r.meta.PageStartIndex + r.meta.PageTotalCount
            IN /\ out' = out \o mapped
               /\ fetched' = fetched \cup {page'}
               /\ IF Len(r.rows) = 0 \/ r.meta.PageTotalCount <= 0
                    THEN /\ PgReturn(out', FALSE, 0, "signal")
                         /\ UNCHANGED startIndex
                    ELSE /\ startIndex' = next
                         /\ IF r.meta.TotalCount > 0 /\ next >= r.meta.TotalCount
                              THEN PgReturn(out', FALSE, 0, "signal")
                              ELSE UNCHANGED <<pgPc, pgRet, stopBy>>
    /\ UNCHANGED <<pgArgs, maxPages, cursor, udemyVars, parVars, retryVars,
                   diffVars, pureVars, fetchVars>>

\* ------------------------------------------------------------------ pluralsight
StrUdemy == <<"u", "d", "e", "m", "y">>
StrPluralsight == <<"p", "l", "u", "r", "a", "l", "s", "i", "g", "h", "t">>
UnifiedCourse(source, id) == [Source |-> source, SourceID |-> id]
\* strconv.FormatInt(n, 10) and %d, for n >= 0
RECURSIVE Itoa(_)
Itoa(n) == IF n < 10 THEN <<DigitCh(n)>> ELSE Itoa(n \div 10) \o <<DigitCh(n)>>
\* Node r of the Pluralsight catalog: with a numeric id, with a textual id
\* only, or with a slug only.
CourseNode(r) ==
    CASE r % 3 = 1 -> [IDNum |-> r, ID |-> <<"c", DigitCh(r)>>, Slug |-> <<"s">>]
      [] r % 3 = 2 -> [IDNum |-> 0, ID |-> <<" ", "c", DigitCh(r), " ">>, Slug |-> <<"s">>]
      [] OTHER -> [IDNum |-> 0, ID |-> <<" ">>, Slug |-> <<"s", DigitCh(r), " ">>]
stablePSID(n) ==
    IF n.IDNum > 0 THEN Itoa(n.IDNum)
    ELSE IF TrimSpace(n.ID) # <<>> THEN TrimSpace(n.ID)
    ELSE TrimSpace(n.Slug)
\* The domain.UnifiedCourse the pluralsight adapter makes of a node.
PSCourse(n) == UnifiedCourse(StrPluralsight, stablePSID(n))
\* Client.ListCoursesPage by cursor: the nodes of the page after the cursor.
PSPage(after) ==
    [Nodes |-> [k \in 1..Len(PageRecords(after + 1)) |->
                   CourseNode(PageRecords(after + 1)[k])],
     HasNextPage |-> after + 1 < srv.pages, EndCursor |-> after + 1]

PSCall ==
    /\ pgFn = "pluralsight" /\ pgPc = "call"
    /\ maxPages' = maxPagesArg
    /\ cursor' = 0
    /\ page' = 1
    /\ out' = <<>>
    /\ pgPc' = "loop"
    /\ UNCHANGED <<pgArgs, startIndex, udemyVars, pgRet, fetched, stopBy, reqs,
                   parVars, retryVars, diffVars, pureVars, fetchVars>>

pluralsightMaxFirst == 8000
\* Mutant: a First above the maximum is passed on.
PSFirst_NoClamp == IF sizeArg <= 0 THEN pluralsightMaxFirst ELSE sizeArg
\* `first` after the two tests at the head of Provider.ListCourses
PSFirst ==
    LET first == IF sizeArg <= 0 THEN pluralsightMaxFirst ELSE sizeArg
    IN IF first > pluralsightMaxFirst THEN pluralsightMaxFirst ELSE first

\* One iteration of the loop of pluralsight Provider.ListCourses.
PSLoop ==
    /\ pgFn = "pluralsight" /\ pgPc = "loop"
    /\ reqs' = IF maxPages > 0 /\ page > maxPages THEN reqs
               ELSE Append(reqs, Req("cursor", cursor, PSFirst))
    /\ IF maxPages > 0 /\ page > maxPages
         THEN /\ PgReturn(out, FALSE, 0, "cap")
              /\ UNCHANGED <<page, cursor, out, fetched>>
       ELSE IF srv.failAt = page
         THEN /\ PgReturn(<<>>, TRUE, page, "error")
              /\ UNCHANGED <<page, cursor, out, fetched>>
       ELSE LET res == PSPage(cursor)
            IN /\ out' = out \o [k \in 1..Len(res.Nodes) |-> PSCourse(res.Nodes[k])]
               /\ fetched' = fetched \cup {page}
               /\ IF ~res.HasNextPage
                    THEN /\ PgReturn(out', FALSE, 0, "signal")
                         /\ UNCHANGED <<page, cursor>>
                    ELSE /\ cursor' = res.EndCursor
                         /\ page' = page + 1
                         /\ UNCHANGED <<pgPc, pgRet, stopBy>>
    /\ UNCHANGED <<pgArgs, maxPages, startIndex, udemyVars, parVars, retryVars,
                   diffVars, pureVars, fetchVars>>

\* ------------------------------------------------------------------ udemy
UdemyWorkers == 4
UdemyRps == 4
CeilDiv(a, b) == (a + b - 1) \div b
\* Mutant: maxPages is not applied.
TotalPages_Uncapped(count, pageSizeReal, mp) == CeilDiv(count, pageSizeReal)
TotalPages(count, pageSizeReal, mp) ==
    LET t == CeilDiv(count, pageSizeReal)
    IN IF mp > 0 /\ mp < t THEN mp ELSE t
ClientReturn(list, isNil, err) ==
    /\ clientRet' = [isNil |-> isNil, elems |-> list, err |-> err]
    /\ pgPc' = "provider"

UdemyMaxPageSize == 100
\* Provider.ListCourses: `if p.PageSize <= 0 { p.PageSize = 100 }`, then
\* Client.ListCourses: `if pageSize <= 0 || pageSize > 100 { pageSize = 100 }`.
UdemyPageSize ==
    LET pageSize == IF sizeArg <= 0 THEN UdemyMaxPageSize ELSE sizeArg
    IN IF pageSize <= 0 \/ pageSize > UdemyMaxPageSize THEN UdemyMaxPageSize ELSE pageSize
\* baseURL (n = 0) and `baseURL + fmt.Sprintf("&page=%d", p)`
UdemyURL(p) == Req("built", p, UdemyPageSize)

\* The errors of a cancelled context: ctx.Err() itself, and the error of a
\* fetch that the cancellation ended.
ErrCtx == -2
ErrFetchCtx == -3
ErrEmptyFirst == -1

\* ------------------------------------------------------------------ envInt
\* x negated on the 64-bit pattern
DMinus(x) ==
    DAdd([a |-> TopLimb - 1 - x.a, b |-> Limb - 1 - x.b, c |-> Limb - 1 - x.c],
         DFromInt(1))
\* strconv.Atoi: an optional sign, then one or more decimal digits; an error
\* for anything else and for a value outside int64. The value is an int of
\* 64 bits, held like a time.Duration.
IsDigit(c) == c \in {"0", "1", "2", "3", "4", "5", "6", "7", "8", "9"}
DigitVal(c) == CHOOSE n \in 0..9 : DigitCh(n) = c
\* the value of at most nine digits
Digits9(s) ==
    LET d == [k \in 1..9 |-> IF k <= 9 - Len(s) THEN 0 ELSE DigitVal(s[k - (9 - Len(s))])]
    IN d[1] * 100000000 + d[2] * 10000000 + d[3] * 1000000 + d[4] * 100000
        + d[5] * 10000 + d[6] * 1000 + d[7] * 100 + d[8] * 10 + d[9]
HalfLimb == 32768
\* x * m on the 64-bit pattern for an int m of 0 .. 2^30 - 1, by limbs of
\* 15 bits
DTimes(x, m) ==
    LET x0 == x.c % HalfLimb
        x1 == x.c \div HalfLimb
        x2 == x.b % HalfLimb
        x3 == x.b \div HalfLimb
        m0 == m % HalfLimb
        m1 == m \div HalfLimb
        t0 == x0 * m0
        t1 == x1 * m0 + x0 * m1 + (t0 \div HalfLimb)
        t2 == x2 * m0 + x1 * m1 + (t1 \div HalfLimb)
        t3 == x3 * m0 + x2 * m1 + (t2 \div HalfLimb)
        t4 == x.a * m0 + x3 * m1 + (t3 \div HalfLimb)
    IN [a |-> t4 % TopLimb,
        b |-> (t2 % HalfLimb) + HalfLimb * (t3 % HalfLimb),
        c |-> (t0 % HalfLimb) + HalfLimb * (t1 % HalfLimb)]
\* 10^9 and 10^18
E9 == DFromInt(1000000000)
E18 == DTimes(E9, 1000000000)
\* the value of at most nineteen digits: what n = n*10 + d over the digits
\* comes to, taken nine digits at a time
DigitsVal(s) ==
    LET n  == Len(s)
        lo == SubSeq(s, IF n > 9 THEN n - 8 ELSE 1, n)
        mi == SubSeq(s, IF n > 18 THEN n - 17 ELSE 1, n - 9)
        hi == SubSeq(s, 1, n - 18)
    IN DAdd(DAdd(DTimes(E18, Digits9(hi)), DTimes(E9, Digits9(mi))),
            DFromInt(Digits9(lo)))
RECURSIVE StripZeros(_)
StripZeros(s) == IF s # <<>> /\ s[1] = "0" THEN StripZeros(Tail(s)) ELSE s
\* s <= t for two digit strings of one length
RECURSIVE DigitsLeq(_, _)
DigitsLeq(s, t) ==
    IF s = <<>> THEN TRUE
    ELSE IF s[1] # t[1] THEN DigitVal(s[1]) < DigitVal(t[1])
    ELSE DigitsLeq(Tail(s), Tail(t))
MaxInt64Digits == <<"9", "2", "2", "3", "3", "7", "2", "0", "3", "6", "8", "5", "4",
                    "7", "7", "5", "8", "0", "7">>
MinInt64Digits == <<"9", "2", "2", "3", "3", "7", "2", "0", "3", "6", "8", "5", "4",
                    "7", "7", "5", "8", "0", "8">>
Atoi(s) ==
    LET neg  == s # <<>> /\ s[1] = "-"
        body == IF s # <<>> /\ s[1] \in {"+", "-"} THEN Tail(s) ELSE s
        sig  == StripZeros(body)
    IN IF body = <<>> \/ \E k \in 1..Len(body) : ~IsDigit(body[k])
         THEN [ok |-> FALSE, n |-> DZero]
       ELSE IF \/ Len(sig) > 19
               \/ /\ Len(sig) = 19
                  /\ ~DigitsLeq(sig, IF neg THEN MinInt64Digits ELSE MaxInt64Digits)
         THEN [ok |-> FALSE, n |-> IF neg THEN DMinInt64 ELSE DMaxInt64]
       ELSE [ok |-> TRUE, n |-> IF neg THEN DMinus(DigitsVal(sig)) ELSE DigitsVal(sig)]
\* envInt: the default when the variable is empty, not a number or not positive
envInt(v, def) ==
    LET t == TrimSpace(v)
        a == Atoi(t)
    IN IF t = <<>> THEN DFromInt(def)
       ELSE IF ~a.ok \/ DLeqZero(a.n) THEN DFromInt(def)
       ELSE a.n
\* UDEMY_WORKERS unset, not a number, zero, and four pool sizes, the last
\* of them 2000000001
BigNumeral == <<"2", "0", "0", "0", "0", "0", "0", "0", "0", "1">>
WorkersEnvOpts ==
    {<<>>, <<"x">>, <<"0">>, <<"1">>, <<" ", "2">>, <<"+", "1", "0">>, BigNumeral}
\* UDEMY_RPS unset, 10^9 (a tick of 1 ns) and 10^9 + 1 (a tick of 0)
RpsEnvOpts ==
    {<<>>, <<"1", "0", "0", "0", "0", "0", "0", "0", "0", "0">>,
     <<"1", "0", "0", "0", "0", "0", "0", "0", "0", "1">>}

\* envInt over the values of the two variables, computed once
WorkersKnown == [v \in WorkersEnvOpts |-> envInt(v, UdemyWorkers)]
RpsKnown == [v \in RpsEnvOpts |-> envInt(v, UdemyRps)]
\* workers := envInt("UDEMY_WORKERS", 4); if workers < 1 { workers = 1 }
Workers ==
    LET workers == IF workersEnv \in DOMAIN WorkersKnown THEN WorkersKnown[workersEnv]
                   ELSE envInt(workersEnv, UdemyWorkers)
    IN IF DLess(workers, DFromInt(1)) THEN DFromInt(1) ELSE workers
\* rps := envInt("UDEMY_RPS", 4); if rps < 1 { rps = 1 }
Rps ==
    LET rps == IF rpsEnv \in DOMAIN RpsKnown THEN RpsKnown[rpsEnv]
               ELSE envInt(rpsEnv, UdemyRps)
    IN IF DLess(rps, DFromInt(1)) THEN DFromInt(1) ELSE rps
\* time.Second / time.Duration(rps), in nanoseconds: 0 when rps is above
\* 10^9, and a divisor that is not above 10^9 lies in the lowest limb.
Tick == IF DLess(Second, Rps) THEN 0 ELSE Second.c \div Rps.c

\* Provider.ListCourses calls Client.ListCourses, which asks for page 1 to
\* learn Count and the page size. With a context that is already done the
\* transport sends nothing and the fetch fails.
UdemyCall ==
    /\ pgFn = "udemy" /\ pgPc = "call"
    /\ maxPages' = maxPagesArg
    /\ IF cancelled
         THEN /\ ClientReturn(<<>>, TRUE, ErrFetchCtx)
              /\ stopBy' = "error"
              /\ UNCHANGED reqs
         ELSE /\ reqs' = Append(reqs, UdemyURL(0))
              /\ pgPc' = "first"
              /\ UNCHANGED <<clientRet, stopBy>>
    /\ UNCHANGED <<pgArgs, page, startIndex, cursor, totalPages, inflight, sent, ending, leaving,
                   firstErr, cancelled, out, pgRet, fetched,
                   parVars, retryVars, diffVars, pureVars, fetchVars>>

\* The fetch of page 1 ends and ListCourses goes on to its loop, or returns.
\* Before the loop it makes the ticker: time.NewTicker panics when the
\* interval is not positive.
UdemyFirst ==
    /\ pgFn = "udemy" /\ pgPc = "first"
    /\ LET Results == PageRecords(1)
           pageSizeReal == Len(Results)
       IN \/ /\ cancelled
             /\ ClientReturn(<<>>, TRUE, ErrFetchCtx)
             /\ stopBy' = "error"
             /\ UNCHANGED <<totalPages, out, fetched, page>>
          \/ /\ srv.failAt = 1
             /\ ClientReturn(<<>>, TRUE, 1)
             /\ stopBy' = "error"
             /\ UNCHANGED <<totalPages, out, fetched, page>>
          \/ /\ srv.failAt # 1
             /\ IF pageSizeReal = 0
                  THEN /\ ClientReturn(<<>>, TRUE, ErrEmptyFirst)
                       /\ stopBy' = "error"
                       /\ UNCHANGED <<totalPages, out, fetched, page>>
                  ELSE /\ totalPages' = TotalPages(SrvTotal, pageSizeReal, maxPagesArg)
                       /\ out' = Results
                       /\ fetched' = {1}
                       /\ stopBy' = IF totalPages' < CeilDiv(SrvTotal, pageSizeReal)
                                      THEN "cap" ELSE "signal"
                       /\ IF totalPages' <= 1
                            THEN /\ ClientReturn(out', FALSE, 0)
                                 /\ UNCHANGED page
                            ELSE /\ pgPc' = IF Tick <= 0 THEN "panic" ELSE "spawn"
                                 /\ page' = 2
                                 /\ UNCHANGED clientRet
    /\ UNCHANGED <<pgArgs, maxPages, startIndex, cursor, inflight, sent, ending, leaving, firstErr,
                   cancelled, pgRet, reqs,
                   parVars, retryVars, diffVars, pureVars, fetchVars>>

\* Mutant: goroutines are started without the semaphore.
UdemySpawn_NoSem ==
    /\ pgFn = "udemy" /\ pgPc = "spawn"
    /\ page <= totalPages
    /\ inflight' = inflight \cup {page}
    /\ page' = page + 1
    /\ UNCHANGED <<pgArgs, maxPages, startIndex, cursor, totalPages, sent, ending, leaving, firstErr,
                   cancelled, out, clientRet, pgRet, fetched, stopBy, pgPc, reqs,
                   parVars, retryVars, diffVars, pureVars, fetchVars>>
\* `case sem <- struct{}{}`: the goroutine of the next page is started. When
\* the context is already done the select may still take this case.
UdemySpawn ==
    /\ pgFn = "udemy" /\ pgPc = "spawn"
    /\ page <= totalPages
    /\ DLess(DFromInt(Cardinality(inflight)), Workers)
    /\ inflight' = inflight \cup {page}
    /\ page' = page + 1
    /\ UNCHANGED <<pgArgs, maxPages, startIndex, cursor, totalPages, sent, ending, leaving, firstErr,
                   cancelled, out, clientRet, pgRet, fetched, stopBy, pgPc, reqs,
                   parVars, retryVars, diffVars, pureVars, fetchVars>>

\* The loop ends: all pages were started, or `case <-ctx.Done(): break loop`.
UdemyBreak ==
    /\ pgFn = "udemy" /\ pgPc = "spawn"
    /\ page > totalPages \/ cancelled
    /\ pgPc' = "wait"
    /\ stopBy' = IF page <= totalPages /\ firstErr = 0 THEN "cancel" ELSE stopBy
    /\ UNCHANGED <<pgArgs, maxPages, page, startIndex, cursor, udemyVars, out, pgRet,
                   fetched, reqs, parVars, retryVars, diffVars, pureVars, fetchVars>>

\* once.Do(func() { firstErr = err; cancel() }): the first call sets
\* firstErr and cancels, a later one does nothing.
OnceDo(err) ==
    IF firstErr = 0
      THEN /\ firstErr' = err
           /\ cancelled' = TRUE
           /\ stopBy' = "error"
      ELSE UNCHANGED <<firstErr, cancelled, stopBy>>

\* The goroutine of page p at its select, `case <-tick.C`: it goes on to
\* fetchPageWithRetry. With a context that is done the transport sends
\* nothing, the fetch fails and the goroutine records the error and returns.
UdemyTick ==
    /\ pgFn = "udemy"
    /\ \E p \in (inflight \ sent) \ ending :
        IF cancelled
          THEN /\ OnceDo(ErrFetchCtx)
               /\ ending' = ending \cup {p}
               /\ UNCHANGED <<sent, reqs>>
          ELSE /\ reqs' = Append(reqs, UdemyURL(p))
               /\ sent' = sent \cup {p}
               /\ UNCHANGED <<ending, firstErr, cancelled, stopBy>>
    /\ UNCHANGED <<pgArgs, maxPages, page, startIndex, cursor, totalPages, inflight,
                   leaving, out, fetched, clientRet, pgRet, pgPc,
                   parVars, retryVars, diffVars, pureVars, fetchVars>>

\* The goroutine of page p at its select, `case <-ctx.Done()`.
UdemyCtxDone ==
    /\ pgFn = "udemy" /\ cancelled
    /\ \E p \in (inflight \ sent) \ ending :
        /\ OnceDo(ErrCtx)
        /\ ending' = ending \cup {p}
    /\ UNCHANGED <<pgArgs, maxPages, page, startIndex, cursor, totalPages, inflight,
                   sent, leaving, out, fetched, clientRet, pgRet, pgPc, reqs,
                   parVars, retryVars, diffVars, pureVars, fetchVars>>

\* fetchPageWithRetry of page p returns: with the failure of the page or
\* with the error of the cancelled context, which once.Do records, or with
\* the page, which is appended under the mutex. The goroutine has then left
\* its body and still holds its slot.
UdemyPageDone ==
    /\ pgFn = "udemy"
    /\ \E p \in sent :
        /\ sent' = sent \ {p}
        /\ ending' = ending \cup {p}
        /\ \/ /\ srv.failAt = p
              /\ OnceDo(p)
              /\ UNCHANGED <<out, fetched>>
           \/ /\ srv.failAt # p
              /\ out' = out \o PageRecords(p)
              /\ fetched' = fetched \cup {p}
              /\ UNCHANGED <<firstErr, cancelled, stopBy>>
           \/ /\ cancelled
              /\ OnceDo(ErrFetchCtx)
              /\ UNCHANGED <<out, fetched>>
    /\ UNCHANGED <<pgArgs, maxPages, page, startIndex, cursor, totalPages, inflight,
                   leaving, clientRet, pgRet, pgPc, reqs,
                   parVars, retryVars, diffVars, pureVars, fetchVars>>

\* `defer func() { <-sem }()`, the first deferred call to run: the goroutine
\* of page p gives its slot back.
UdemySemRelease ==
    /\ pgFn = "udemy"
    /\ \E p \in ending :
        /\ inflight' = inflight \ {p}
        /\ ending' = ending \ {p}
        /\ leaving' = leaving \cup {p}
    /\ UNCHANGED <<pgArgs, maxPages, page, startIndex, cursor, totalPages, sent,
                   firstErr, cancelled, out, fetched, clientRet, pgRet, stopBy, pgPc,
                   reqs, parVars, retryVars, diffVars, pureVars, fetchVars>>

\* `defer wg.Done()`, the last deferred call: the goroutine of page p is over.
UdemyWgDone ==
    /\ pgFn = "udemy"
    /\ \E p \in leaving : leaving' = leaving \ {p}
    /\ UNCHANGED <<pgArgs, maxPages, page, startIndex, cursor, totalPages, inflight,
                   sent, ending, firstErr, cancelled, out, fetched, clientRet, pgRet,
                   stopBy, pgPc, reqs, parVars, retryVars, diffVars, pureVars, fetchVars>>

\* The context the caller passed is cancelled while ListCourses runs.
UdemyCancel ==
    /\ pgFn = "udemy" /\ pgPc \in {"call", "first", "spawn", "wait"}
    /\ ~cancelled
    /\ cancelled' = TRUE
    /\ UNCHANGED <<pgArgs, maxPages, page, startIndex, cursor, totalPages, inflight,
                   sent, ending, leaving, firstErr, out, clientRet, pgRet, fetched, stopBy, pgPc, reqs,
                   parVars, retryVars, diffVars, pureVars, fetchVars>>

\* Mutant: with an error nothing is returned beside it.
UdemyWait_DropPartial ==
    /\ pgFn = "udemy" /\ pgPc = "wait"
    /\ inflight = {} /\ leaving = {}
    /\ IF firstErr # 0 THEN ClientReturn(<<>>, TRUE, firstErr)
                       ELSE ClientReturn(out, FALSE, firstErr)
    /\ UNCHANGED <<pgArgs, maxPages, page, startIndex, cursor, totalPages, inflight,
                   sent, ending, leaving, firstErr, cancelled, out, pgRet, fetched, stopBy, reqs,
                   parVars, retryVars, diffVars, pureVars, fetchVars>>
\* wg.Wait() is over, every goroutine has called wg.Done: Client.ListCourses returns what it gathered and firstErr.
UdemyWait ==
    /\ pgFn = "udemy" /\ pgPc = "wait"
    /\ inflight = {} /\ leaving = {}
    /\ ClientReturn(out, FALSE, firstErr)
    /\ UNCHANGED <<pgArgs, maxPages, page, startIndex, cursor, totalPages, inflight,
                   sent, ending, leaving, firstErr, cancelled, out, pgRet, fetched, stopBy, reqs,
                   parVars, retryVars, diffVars, pureVars, fetchVars>>

\* The domain.UnifiedCourse the udemy adapter makes of the course with
\* numeric id `id`: SourceID is fmt.Sprintf("UDM+%d", c.ID).
UdemyCourse(id) == UnifiedCourse(StrUdemy, PrefixUDM \o Itoa(id))
\* Provider.ListCourses after the client returned.
UdemyProvider ==
    /\ pgFn = "udemy" /\ pgPc = "provider"
    /\ IF clientRet.err # 0
         THEN PgReturn(<<>>, TRUE, clientRet.err, stopBy)
         ELSE PgReturn([k \in 1..Len(clientRet.elems) |->
                           UdemyCourse(clientRet.elems[k])],
                       FALSE, 0, stopBy)
    /\ UNCHANGED <<pgArgs, maxPages, page, startIndex, cursor, udemyVars, out, fetched,
                   reqs, parVars, retryVars, diffVars, pureVars, fetchVars>>

\* ------------------------------------------------------------------ ListAllEmployees
\* The first call, without parameters. srv.mode 1 answers in the data/meta
\* shape, srv.mode 2 in the results/next shape.
EmpLimitCap == 100
\* `limit` of the data/meta branch: pageTotalCount of the first response,
\* capped, replaced by the capped pageSizeHint when one is given.
EmpLimit ==
    LET pageTotalCount == Len(PageRecords(1))
        limit == IF pageTotalCount <= 0 \/ pageTotalCount > EmpLimitCap
                   THEN EmpLimitCap ELSE pageTotalCount
    IN IF sizeArg > 0
         THEN (IF sizeArg > EmpLimitCap THEN EmpLimitCap ELSE sizeArg)
         ELSE limit

EmpCall ==
    /\ pgFn = "ListAllEmployees" /\ pgPc = "call"
    /\ page' = 1
    /\ reqs' = Append(reqs, Req("base", 0, 0))
    /\ IF srv.failAt = 1
         THEN /\ PgReturn(<<>>, TRUE, 1, "error")
              /\ UNCHANGED <<out, fetched, startIndex, cursor>>
       ELSE LET data == PageRecords(1)
            IN /\ out' = data
               /\ fetched' = {1}
               /\ IF srv.mode = 1
                    THEN /\ UNCHANGED cursor
                         /\ IF SrvTotal <= 0 \/ Len(data) <= 0
                              THEN /\ PgReturn(out', FALSE, 0, "signal")
                                   /\ UNCHANGED startIndex
                              ELSE /\ startIndex' = Len(data)
                                   /\ pgPc' = "loop"
                                   /\ UNCHANGED <<pgRet, stopBy>>
                    ELSE /\ cursor' = IF 1 < srv.pages THEN 1 ELSE 0
                         /\ pgPc' = "loop"
                         /\ UNCHANGED <<startIndex, pgRet, stopBy>>
    /\ UNCHANGED <<pgArgs, maxPages, udemyVars, parVars, retryVars, diffVars, pureVars, fetchVars>>

\* One iteration of `for start < total` (data/meta) or `for next != ""`
\* (results/next).
EmpLoop ==
    /\ pgFn = "ListAllEmployees" /\ pgPc = "loop"
    /\ reqs' = IF srv.mode = 1
                 THEN (IF startIndex < SrvTotal
                         THEN Append(reqs, Req("offset", startIndex, EmpLimit))
                         ELSE reqs)
                 ELSE (IF cursor # 0 THEN Append(reqs, Req("next", cursor, 0)) ELSE reqs)
    /\ IF srv.mode = 1
         THEN /\ IF startIndex < SrvTotal
                THEN /\ page' = page + 1
                     /\ IF srv.failAt = page'
                          THEN /\ PgReturn(<<>>, TRUE, page', "error")
                               /\ UNCHANGED <<out, fetched, startIndex>>
                          ELSE LET data == SrvSlice(startIndex)
                               IN /\ out' = out \o data
                                  /\ fetched' = fetched \cup {page'}
                                  /\ IF Len(data) = 0
                                       THEN /\ PgReturn(out', FALSE, 0, "signal")
                                            /\ UNCHANGED startIndex
                                       ELSE /\ startIndex' = startIndex + Len(data)
                                            /\ UNCHANGED <<pgPc, pgRet, stopBy>>
                ELSE /\ PgReturn(out, FALSE, 0, "signal")
                     /\ UNCHANGED <<page, out, fetched, startIndex>>
              /\ UNCHANGED cursor
         ELSE /\ IF cursor # 0
                THEN /\ page' = page + 1
                     /\ IF srv.failAt = page'
                          THEN /\ PgReturn(<<>>, TRUE, page', "error")
                               /\ UNCHANGED <<out, fetched, cursor>>
                          ELSE /\ out' = out \o PageRecords(cursor + 1)
                               /\ fetched' = fetched \cup {page'}
                               /\ cursor' = IF cursor + 1 < srv.pages
                                              THEN cursor + 1 ELSE 0
                               /\ UNCHANGED <<pgPc, pgRet, stopBy>>
                ELSE /\ PgReturn(out, FALSE, 0, "signal")
                     /\ UNCHANGED <<page, out, fetched, cursor>>
              /\ UNCHANGED startIndex
    /\ UNCHANGED <<pgArgs, maxPages, udemyVars, parVars, retryVars, diffVars, pureVars, fetchVars>>

\* ------------------------------------------------------------------ specification
SizeOpts == {-1, 0, 50, 100, 500, 8000, 9000}
Backends ==
    { [pages |-> n, failAt |-> k, mode |-> md, single |-> sg] :
        n \in 0..MaxSrvPages, k \in 0..MaxSrvPages, md \in {1, 2, 3}, sg \in BOOLEAN }

InitPage ==
    /\ ParOff /\ RetryOff /\ DiffOff /\ PureOff /\ FetchOff
    /\ pgFn \in {"FetchEightfoldCourses", "pluralsight", "udemy", "ListAllEmployees"}
    /\ maxPagesArg \in MaxPagesOpts
    /\ pgFn = "ListAllEmployees" => maxPagesArg = 0
    /\ srv \in Backends
    /\ srv.failAt <= IF srv.pages = 0 THEN 1 ELSE srv.pages
    /\ pgFn \in {"pluralsight", "udemy"} => srv.mode = 1
    /\ srv.mode = 3 => pgFn = "FetchEightfoldCourses"
    /\ srv.single => (pgFn = "FetchEightfoldCourses" /\ srv.failAt = 1)
    /\ pgPc = "call"
    /\ maxPages = 0 /\ page = 0 /\ startIndex = 0 /\ cursor = 0 /\ totalPages = 0
    /\ inflight = {} /\ sent = {} /\ ending = {} /\ leaving = {}
    /\ firstErr = 0 /\ cancelled = FALSE /\ out = <<>>
    /\ clientRet = NoPgRet /\ pgRet = NoPgRet /\ fetched = {} /\ stopBy = "none"
    /\ sizeArg \in SizeOpts
    /\ workersEnv \in (IF pgFn = "udemy" THEN WorkersEnvOpts ELSE {<<>>})
    /\ rpsEnv \in (IF pgFn = "udemy" THEN RpsEnvOpts ELSE {<<>>})
    /\ workersEnv # <<>> => sizeArg = 0
    /\ rpsEnv # <<>> => (workersEnv = <<>> /\ sizeArg = 0)
    /\ reqs = <<>>

NextPage ==
    \/ EFCall
    \/ EFLoop
    \/ PSCall
    \/ PSLoop
    \/ UdemyCall
    \/ UdemyFirst
    \/ UdemySpawn
    \/ UdemyBreak
    \/ UdemyTick
    \/ UdemyCtxDone
    \/ UdemyPageDone
    \/ UdemySemRelease
    \/ UdemyWgDone
    \/ UdemyCancel
    \/ UdemyWait
    \/ UdemyProvider
    \/ EmpCall
    \/ EmpLoop

SpecPage == InitPage /\ [][NextPage]_vars
\* Every call that can go on does go on.
SpecPageLive == SpecPage /\ WF_vars(NextPage)

\* ================================================================== claims, Part III
PageReturned == pgPc = "done"
\* The records of the backend pages P, in the form the fetch collects them.
CollectedOf(f, P) ==
    UNION { IF f = "FetchEightfoldCourses"
              THEN ElemSet(filterManagedEightfold(mapEightfoldRows(
                       [k \in 1..Len(PageRecords(p)) |-> RawRow(PageRecords(p)[k])])))
            ELSE IF f = "pluralsight"
              THEN { PSCourse(CourseNode(r)) : r \in ElemSet(PageRecords(p)) }
            ELSE ElemSet(PageRecords(p)) : p \in P }
\* ... and in the form the fetch returns them.
ReturnedOf(f, P) ==
    IF f = "udemy" THEN { UdemyCourse(r) : r \in CollectedOf(f, P) }
    ELSE CollectedOf(f, P)

\* C13: when the request for a page k > 1 fails after earlier pages were
\* fetched, the fetch returns the records of the pages it fetched together
\* with the error, never a nil list.
C13_PartialSurvives ==
    (PageReturned /\ pgRet.err > 1 /\ fetched # {})
        => /\ ~pgRet.isNil
           /\ ElemSet(pgRet.elems) = ReturnedOf(pgFn, fetched)

\* C14: with maxPages > 0 at most maxPages pages are fetched and contribute
\* records, whatever the backend signals; with maxPages <= 0 the cap never ends
\* the loop: a fetch that met no failure, and whose context was not
\* cancelled, ends on the backend's own signal with every page collected.
CapFetches == {"FetchEightfoldCourses", "pluralsight", "udemy"}
C14_MaxPages ==
    pgFn \in CapFetches =>
        /\ maxPagesArg > 0 =>
              /\ fetched \subseteq 1..maxPagesArg
              /\ ElemSet(out) \subseteq CollectedOf(pgFn, 1..maxPagesArg)
              /\ ElemSet(pgRet.elems) \subseteq ReturnedOf(pgFn, 1..maxPagesArg)
        /\ (PageReturned /\ stopBy = "cap") =>
              /\ maxPagesArg > 0
              /\ fetched = 1..maxPagesArg
        /\ maxPagesArg <= 0 => stopBy # "cap"
        /\ (PageReturned /\ maxPagesArg <= 0 /\ srv.failAt = 0 /\ pgRet.err = 0
               /\ ~cancelled) =>
              /\ stopBy = "signal"
              /\ ElemSet(pgRet.elems) = ReturnedOf(pgFn, 1..srv.pages)
\* Witness: the backend has more pages than maxPages allows, and the fetch
\* returned the records of the first maxPages pages only.
C14_Witness ==
    /\ PageReturned /\ pgFn \in CapFetches
    /\ maxPagesArg > 1 /\ srv.pages > maxPagesArg /\ srv.failAt = 0
    /\ stopBy = "cap" /\ fetched = 1..maxPagesArg /\ pgRet.err = 0
    /\ ElemSet(pgRet.elems) = ReturnedOf(pgFn, 1..maxPagesArg)

\* ================================================================== Part IV
\* ------------------------------------------------------------------ systemid.go
StrSRC == <<"S", "R", "C">>

\* Mutant: the source is compared as written.
BuildSystemID_CaseSensitive(source, sourceID) ==
    LET t == TrimSpace(source)
    IN IF t = StrUdemy THEN PrefixUDM \o TrimSpace(sourceID)
       ELSE IF t = StrPluralsight THEN PrefixPLS \o TrimSpace(sourceID)
       ELSE LET prefix == ToUpper(TrimSpace(source))
            IN (IF prefix = <<>> THEN StrSRC ELSE prefix) \o <<"+">> \o TrimSpace(sourceID)
BuildSystemID(source, sourceID) ==
    LET t == ToLower(TrimSpace(source))
    IN IF t = StrUdemy THEN PrefixUDM \o TrimSpace(sourceID)
       ELSE IF t = StrPluralsight THEN PrefixPLS \o TrimSpace(sourceID)
       ELSE LET prefix == ToUpper(TrimSpace(source))
            IN (IF prefix = <<>> THEN StrSRC ELSE prefix) \o <<"+">> \o TrimSpace(sourceID)

\* ------------------------------------------------------------------ needsUpdate
norm(s) == TrimSpace(ToLower(s))

\* The letters outside ASCII are written as one character each: "ntilde" is
\* n with tilde, "ecirc" is e with circumflex.
LangEn == <<"e", "n">>
LangEs == <<"e", "s">>
LangPt == <<"p", "t">>
LangNames ==
    [en |-> {<<"e", "n", "g", "l", "i", "s", "h">>},
     es |-> {<<"s", "p", "a", "n", "i", "s", "h">>,
             <<"e", "s", "p", "a", "ntilde", "o", "l">>,
             <<"e", "s", "p", "a", "n", "o", "l">>},
     pt |-> {<<"p", "o", "r", "t", "u", "g", "u", "e", "s", "e">>,
             <<"p", "o", "r", "t", "u", "g", "u", "ecirc", "s">>,
             <<"p", "o", "r", "t", "u", "g", "u", "e", "s">>}]
normLang(s) ==
    LET t == TrimSpace(ToLower(s))
        v == [k \in 1..Len(t) |-> IF t[k] = "_" THEN "-" ELSE t[k]]
    IN IF v \in LangNames.en THEN LangEn
       ELSE IF v \in LangNames.es THEN LangEs
       ELSE IF v \in LangNames.pt THEN LangPt
       ELSE IF HasPrefix(v, LangEn) THEN LangEn
       ELSE IF HasPrefix(v, LangEs) THEN LangEs
       ELSE IF HasPrefix(v, LangPt) THEN LangPt
       ELSE v

\* A duration is written in thousandths of an hour: 2501 is the float64 that
\* the literal 2.501 denotes. Tolerance is the 0.01 of the code.
Tolerance == 10
AbsDiff(a, b) == IF a < b THEN b - a ELSE a - b

\* ------------------------------------------------------------------ float64
\* A float64 is written as the natural number of 2^-80ths it is worth, in
\* twelve digits of ten bits, the most significant first. The durations are
\* between 0.001 and some thousands of hours: far from the subnormal
\* numbers and from overflow, and with more than 53 bits in the quotient
\* by 1000.
\* n * 2^80
Scaled(n) == [k \in 1..12 |-> IF k <= 4 THEN (n \div Pow2(10 * (4 - k))) % 1024 ELSE 0]
\* quotient and remainder by a divisor of at most 2^20
RECURSIVE DivLimbs(_, _)
DivLimbs(b, d) ==
    IF b = <<>> THEN [q |-> <<>>, r |-> 0]
    ELSE LET h == DivLimbs(SubSeq(b, 1, Len(b) - 1), d)
             x == h.r * 1024 + b[Len(b)]
         IN [q |-> Append(h.q, x \div d), r |-> x % d]
\* a - b for a >= b, bw the borrow from the right
RECURSIVE SubLimbs(_, _, _)
SubLimbs(a, b, bw) ==
    IF a = <<>> THEN <<>>
    ELSE LET x == a[Len(a)] - b[Len(b)] - bw
         IN Append(SubLimbs(SubSeq(a, 1, Len(a) - 1), SubSeq(b, 1, Len(b) - 1),
                            IF x < 0 THEN 1 ELSE 0),
                   IF x < 0 THEN x + 1024 ELSE x)
LimbsLess(a, b) ==
    \E k \in 1..Len(a) : a[k] < b[k] /\ \A j \in 1..(k - 1) : a[j] = b[j]
Bit(n, j) == (n \div Pow2(j)) % 2
BitsOfLimbs(l) == [k \in 1..(10 * Len(l)) |-> Bit(l[((k - 1) \div 10) + 1], 9 - ((k - 1) % 10))]
LimbsOfBits(b) ==
    [k \in 1..(Len(b) \div 10) |->
        LET o == 10 * (k - 1)
        IN 512 * b[o + 1] + 256 * b[o + 2] + 128 * b[o + 3] + 64 * b[o + 4]
            + 32 * b[o + 5] + 16 * b[o + 6] + 8 * b[o + 7] + 4 * b[o + 8]
            + 2 * b[o + 9] + b[o + 10]]
\* Rounding to 53 significant bits, to nearest and to even on a tie; sticky
\* says that the exact value is above l.
Round53(l, sticky) ==
    LET b == BitsOfLimbs(l)
        n == Len(b)
    IN IF \A k \in 1..n : b[k] = 0 THEN l
       ELSE LET msb  == CHOOSE k \in 1..n : b[k] = 1 /\ \A j \in 1..(k - 1) : b[j] = 0
                lsb == msb + 52
            IN IF lsb >= n THEN l
               ELSE LET rest == sticky \/ \E k \in (lsb + 2)..n : b[k] = 1
                        up   == b[lsb + 1] = 1 /\ (rest \/ b[lsb] = 1)
                        z    == CHOOSE k \in 1..lsb :
                                    b[k] = 0 /\ \A j \in (k + 1)..lsb : b[j] = 1
                    IN LimbsOfBits([k \in 1..n |->
                          IF up THEN (IF k < z THEN b[k] ELSE IF k = z THEN 1 ELSE 0)
                                ELSE (IF k <= lsb THEN b[k] ELSE 0)])
\* the float64 nearest to n/1000
Float64(n) ==
    LET d == DivLimbs(Scaled(n), 1000)
    IN Round53(d.q, d.r # 0)
\* The durations of the records below, in thousandths of an hour.
UpDurations == {0, 2400, 2410, 2490, 2500, 2501, 2511, -5}
EFDurations == {0, 2400, 2510}
\* Float64 of the durations that occur, computed once.
Float64Known ==
    [n \in {d \in UpDurations \cup EFDurations \cup {Tolerance} : d > 0} |-> Float64(n)]
Float64At(n) == IF n \in DOMAIN Float64Known THEN Float64Known[n] ELSE Float64(n)
\* math.Abs(a - b): the exact difference, rounded
FloatAbsDiff(a, b) ==
    Round53(IF LimbsLess(a, b) THEN SubLimbs(b, a, 0) ELSE SubLimbs(a, b, 0), FALSE)

\* `if eX != "" && pX != eX { return true }`
TextDiffers(pv, ev) == ev # <<>> /\ pv # ev
\* e.DurationHours > 0 && p.DurationHours > 0 &&
\*     math.Abs(e.DurationHours-p.DurationHours) > 0.01
DurationDiffers(pd, ed) ==
    /\ ed > 0 /\ pd > 0
    /\ LimbsLess(Float64At(Tolerance), FloatAbsDiff(Float64At(ed), Float64At(pd)))

\* Mutant: an empty destination title counts as a difference.
ChangedField_EmptyCounts(p, e) ==
    IF norm(p.Title) # norm(e.Title) THEN "Title" ELSE "none"
\* The field at which needsUpdate returns true, "none" when it returns false.
ChangedField(p, e) ==
    IF TextDiffers(norm(p.Title), norm(e.Title)) THEN "Title"
    ELSE IF TextDiffers(norm(p.Description), norm(e.Description)) THEN "Description"
    ELSE IF TextDiffers(norm(p.CourseURL), norm(e.CourseURL)) THEN "CourseURL"
    ELSE IF TextDiffers(normLang(p.Language), normLang(e.Language)) THEN "Language"
    ELSE IF TextDiffers(norm(p.Category), norm(e.Category)) THEN "Category"
    ELSE IF TextDiffers(norm(p.Difficulty), norm(e.Difficulty)) THEN "Difficulty"
    ELSE IF DurationDiffers(p.DurationHours, e.DurationHours) THEN "DurationHours"
    ELSE IF TextDiffers(norm(p.PublishedDate), norm(e.PublishedDate)) THEN "PublishedDate"
    ELSE IF TextDiffers(norm(p.ImageURL), norm(e.ImageURL)) THEN "ImageURL"
    ELSE IF norm(e.Status) # <<>> /\ norm(p.Status) # <<>>
            /\ norm(p.Status) # norm(e.Status) THEN "Status"
    ELSE "none"
\* Mutant: every matched record is reported.
needsUpdate_Always(p, e) == TRUE
needsUpdate(p, e) == ChangedField(p, e) # "none"

\* ------------------------------------------------------------------ inputs
TextFields == {"Title", "Description", "CourseURL", "Language", "Category",
               "Difficulty", "PublishedDate", "ImageURL", "Status"}
TxtA == <<"A">>
TxtB == <<"B">>
TxtZ == <<"Z">>
TxtBlank == <<" ">>

\* A domain.UnifiedCourse with every field filled in.
Course0 ==
    [Source |-> StrUdemy, SourceID |-> <<"1">>, Title |-> TxtA,
     Description |-> <<"d">>, CourseURL |-> <<"u">>, Language |-> LangEn,
     Category |-> <<"c">>, Difficulty |-> <<"b">>, DurationHours |-> 2500,
     PublishedDate |-> <<"1">>, ImageURL |-> <<"i">>, Status |-> <<"o", "n">>]
\* The EFCourse with the same values, and the one with none.
EFSame ==
    [SystemID |-> <<>>, LMSCourseID |-> PrefixUDM \o <<"1">>, Title |-> TxtA,
     Description |-> <<"d">>, CourseURL |-> <<"u">>, Language |-> LangEn,
     Category |-> <<"c">>, Difficulty |-> <<"b">>, DurationHours |-> 2500,
     PublishedDate |-> <<"1">>, ImageURL |-> <<"i">>, Status |-> <<"o", "n">>]
EFEmpty ==
    [SystemID |-> <<>>, LMSCourseID |-> PrefixUDM \o <<"1">>, Title |-> <<>>,
     Description |-> <<>>, CourseURL |-> <<>>, Language |-> <<>>,
     Category |-> <<>>, Difficulty |-> <<>>, DurationHours |-> 0,
     PublishedDate |-> <<>>, ImageURL |-> <<>>, Status |-> <<>>]
\* Equal up to case, surrounding space and the spelling of the language.
EFAlike ==
    [EFSame EXCEPT !.Title = <<" ", "a", " ">>, !.Status = <<"O", "N", " ">>,
                   !.Language = <<"E", "n", "g", "l", "i", "s", "h">>]

UpCourses ==
    {Course0}
    \cup {[Course0 EXCEPT ![f] = TxtB] : f \in TextFields}
    \cup {[Course0 EXCEPT ![f] = <<>>] : f \in TextFields}
    \cup {[Course0 EXCEPT !.DurationHours = d] : d \in UpDurations}
    \cup {[Course0 EXCEPT !.Language = <<"e", "n", "_", "U", "S">>],
          [Course0 EXCEPT !.Language = <<"e", "s", "p", "a", "ntilde", "o", "l">>]}
EFCourses ==
    {EFSame, EFAlike, EFEmpty}
    \cup {[EFSame EXCEPT ![f] = <<>>] : f \in TextFields}
    \cup {[EFSame EXCEPT ![f] = TxtBlank] : f \in TextFields}
    \cup {[EFSame EXCEPT ![f] = TxtZ] : f \in TextFields}
    \cup {[EFEmpty EXCEPT ![f] = TxtZ] : f \in TextFields}
    \cup {[EFEmpty EXCEPT ![f] = TxtBlank] : f \in TextFields}
    \cup {[EFSame EXCEPT !.DurationHours = d] : d \in EFDurations}
    \cup {[EFEmpty EXCEPT !.DurationHours = d] : d \in EFDurations}
    \cup {[EFSame EXCEPT !.Language = <<"S", "p", "a", "n", "i", "s", "h">>]}

Sources ==
    {StrUdemy, ToUpper(StrUdemy), <<" ", "U", "d", "e", "m", "y", " ">>,
     StrPluralsight, <<"P", "l", "u", "r", "a", "l", "S", "i", "g", "h", "t", "\t">>,
     <<"c", "o", "u", "r", "s", "e", "r", "a">>, <<" ", "L", "m", "s", " ">>,
     <<>>, TxtBlank, <<"s", "r", "c">>, <<"u", "d", "m">>, <<"eacute">>,
     <<"U+00A0", "L", "m", "s">>}
SourceIDs ==
    {<<"7">>, <<" ", "7", " ">>, <<"x">>, <<"1">>, <<"a", " ", "b">>, <<>>, TxtBlank,
     <<"\f", "7">>}

\* ------------------------------------------------------------------ specification
InitPure ==
    /\ ParOff /\ RetryOff /\ PageOff /\ DiffOff /\ FetchOff
    /\ pfn \in {"needsUpdate", "BuildSystemID"}
    /\ IF pfn = "needsUpdate"
         THEN pin \in [p : UpCourses, e : EFCourses]
         ELSE pin \in [source : Sources, sourceID : SourceIDs]
    /\ pout = <<>>
    /\ ppc = "call"

ApplyNeedsUpdate ==
    /\ ppc = "call" /\ pfn = "needsUpdate"
    /\ pout' = [changed |-> ChangedField(pin.p, pin.e),
                result |-> needsUpdate(pin.p, pin.e)]
    /\ ppc' = "done"
    /\ UNCHANGED <<pfn, pin, parVars, retryVars, pageVars, diffVars, fetchVars>>

ApplyBuildSystemID ==
    /\ ppc = "call" /\ pfn = "BuildSystemID"
    /\ pout' = BuildSystemID(pin.source, pin.sourceID)
    /\ ppc' = "done"
    /\ UNCHANGED <<pfn, pin, parVars, retryVars, pageVars, diffVars, fetchVars>>

NextPure ==
    \/ ApplyNeedsUpdate
    \/ ApplyBuildSystemID

SpecPure == InitPure /\ [][NextPure]_vars

\* ================================================================== claims, Part IV
Applied(f) == ppc = "done" /\ pfn = f

\* C17: a pair whose destination fields are all empty after trimming, with
\* durationHours 0, needs no update whatever the upstream record is; and the
\* field at which needsUpdate reports a change is never one whose destination
\* value is empty.
C17_EmptyDestination ==
    Applied("needsUpdate") =>
        /\ ((\A f \in TextFields : TrimSpace(pin.e[f]) = <<>>) /\ pin.e.DurationHours = 0)
              => pout.result = FALSE
        /\ pout.changed \in TextFields => TrimSpace(pin.e[pout.changed]) # <<>>
        /\ pout.changed = "DurationHours" => pin.e.DurationHours # 0
        /\ pout.result = (pout.changed # "none")
\* Witness: a destination of blanks only against an upstream record with every
\* field filled in: no update.
C17_Witness ==
    /\ Applied("needsUpdate") /\ pin.p = Course0
    /\ \A f \in TextFields : pin.e[f] = IF f = "Title" THEN TxtBlank ELSE <<>>
    /\ pin.e.DurationHours = 0 /\ pout.result = FALSE

\* C18: with all other fields equal, durations (in thousandths of an hour)
\* that differ by at most 0.01 h need no update (2.501 against 2.50), and
\* positive durations that differ by more than 0.01 h need one (2.501 against
\* 2.40).
OthersEqual(p, e) == \A f \in TextFields : p[f] = e[f]
C18_DurationTolerance ==
    (Applied("needsUpdate") /\ OthersEqual(pin.p, pin.e)) =>
        LET pd == pin.p.DurationHours
            ed == pin.e.DurationHours
        IN /\ AbsDiff(pd, ed) <= 10 => ~pout.result
           /\ (pd > 0 /\ ed > 0 /\ AbsDiff(pd, ed) > 10) => pout.result
           /\ (pd = 2501 /\ ed = 2500) => ~pout.result
           /\ (pd = 2501 /\ ed = 2400) => pout.result
\* C19: BuildSystemID is prefix + "+" + trimmed sourceId; the prefix is UDM
\* for udemy and PLS for pluralsight in any case and with surrounding space,
\* SRC for an empty source, the upper-cased trimmed source otherwise.
EqualFold(a, b) == ToUpper(a) = ToUpper(b)
C19_Prefix(source) ==
    LET t == TrimSpace(source)
    IN IF EqualFold(t, StrUdemy) THEN <<"U", "D", "M">>
       ELSE IF EqualFold(t, StrPluralsight) THEN <<"P", "L", "S">>
       ELSE IF t = <<>> THEN <<"S", "R", "C">>
       ELSE ToUpper(t)
C19_BuildSystemID ==
    Applied("BuildSystemID") =>
        /\ pout = C19_Prefix(pin.source) \o <<"+">> \o TrimSpace(pin.sourceID)
        /\ (EqualFold(pin.source, StrUdemy) /\ pin.sourceID = <<"7">>)
              => pout = <<"U", "D", "M", "+", "7">>
        /\ (pin.source = <<"c", "o", "u", "r", "s", "e", "r", "a">> /\ pin.sourceID = <<"x">>)
              => pout = <<"C", "O", "U", "R", "S", "E", "R", "A", "+", "x">>
        /\ (pin.source = <<>> /\ pin.sourceID = <<"1">>) => pout = <<"S", "R", "C", "+", "1">>
\* Witness: " Udemy " with sourceId " 7 " gave UDM+7.
C19_Witness ==
    /\ Applied("BuildSystemID")
    /\ pin.source = <<" ", "U", "d", "e", "m", "y", " ">> /\ pin.sourceID = <<" ", "7", " ">>
    /\ pout = <<"U", "D", "M", "+", "7">>

\* ================================================================== Part V
\* ------------------------------------------------------------------ Diff
MaxCourses == 2

\* m[key] = v on a Go map
MapPut(m, key, v) == [x \in (DOMAIN m) \cup {key} |-> IF x = key THEN v ELSE m[x]]

\* Mutant: an identity already in the map keeps its first record.
RECURSIVE ProvMap_FirstWins(_, _)
ProvMap_FirstWins(sl, k) ==
    IF k = 0 THEN NoMap
    ELSE LET m == ProvMap_FirstWins(sl, k - 1)
             id == BuildSystemID(sl[k].Source, sl[k].SourceID)
         IN IF TrimSpace(id) = <<>> \/ id \in DOMAIN m THEN m ELSE MapPut(m, id, sl[k])
\* The first loop of Diff over provider[1..k]: later records replace earlier
\* ones with the same identity.
RECURSIVE ProvMap(_, _)
ProvMap(sl, k) ==
    IF k = 0 THEN NoMap
    ELSE LET m == ProvMap(sl, k - 1)
             id == BuildSystemID(sl[k].Source, sl[k].SourceID)
         IN IF TrimSpace(id) = <<>> THEN m ELSE MapPut(m, id, sl[k])
\* The second loop, over eightfold[1..k].
RECURSIVE EFMap(_, _)
EFMap(sl, k) ==
    IF k = 0 THEN NoMap
    ELSE LET m == EFMap(sl, k - 1)
             id == TrimSpace(firstNonEmpty(sl[k].LMSCourseID, sl[k].SystemID))
         IN IF id = <<>> THEN m ELSE MapPut(m, id, sl[k])

\* Mutant: the title is taken as it is.
DeleteCourse_RawTitle(efc, id) == [Title |-> efc.Title, LMSCourseID |-> id]
\* export.DeleteCourse{Title: strings.TrimSpace(efc.Title), LMSCourseID: id}
DeleteCourse(efc, id) == [Title |-> TrimSpace(efc.Title), LMSCourseID |-> id]

\* ------------------------------------------------------------------ inputs
ProvPool ==
    {Course0,
     [Course0 EXCEPT !.Source = <<" ", "U", "d", "e", "m", "y", " ">>,
                     !.SourceID = <<" ", "1", " ">>, !.Title = TxtB],
     [Course0 EXCEPT !.Source = StrPluralsight, !.SourceID = <<"2">>],
     [Course0 EXCEPT !.SourceID = TxtBlank, !.Title = TxtZ]}
EFPool ==
    {EFSame,
     [EFSame EXCEPT !.LMSCourseID = TxtBlank,
                    !.SystemID = <<"\f">> \o PrefixUDM \o <<"1", " ">>, !.Title = TxtZ],
     [EFEmpty EXCEPT !.LMSCourseID = <<"X", "+", "9">>, !.Title = <<" ", "O", " ">>],
     [EFEmpty EXCEPT !.LMSCourseID = PrefixUDM],
     [EFEmpty EXCEPT !.LMSCourseID = <<>>, !.Title = TxtB]}
SeqsUpTo(S, n) == UNION { [1..k -> S] : k \in 0..n }

InitDiff ==
    /\ ParOff /\ RetryOff /\ PageOff /\ PureOff /\ FetchOff
    /\ provider \in SeqsUpTo(ProvPool, MaxCourses)
    /\ eightfold \in SeqsUpTo(EFPool, MaxCourses)
    /\ dpc = "call"
    /\ provByID = NoMap /\ efByID = NoMap /\ todoProv = {} /\ todoEF = {}
    /\ create = <<>> /\ update = <<>> /\ del = <<>>
    /\ run = 1
    /\ prevOut = NoOut

diffOthers == <<parVars, retryVars, pageVars, pureVars, fetchVars>>

\* Diff up to its third loop: the two maps are built.
DiffCall ==
    /\ dpc = "call"
    /\ provByID' = ProvMap(provider, Len(provider))
    /\ efByID' = EFMap(eightfold, Len(eightfold))
    /\ todoProv' = DOMAIN provByID'
    /\ todoEF' = DOMAIN efByID'
    /\ create' = <<>> /\ update' = <<>> /\ del' = <<>>
    /\ dpc' = "join"
    /\ UNCHANGED <<provider, eightfold, run, prevOut, diffOthers>>

\* Mutant: the loop is left after the first creation.
DiffJoin_BreakAfterCreate ==
    /\ dpc = "join"
    /\ \E id \in todoProv :
        IF id \notin DOMAIN efByID
          THEN /\ create' = Append(create, provByID[id])
               /\ todoProv' = {}
               /\ UNCHANGED update
          ELSE /\ todoProv' = todoProv \ {id}
               /\ update' = IF needsUpdate(provByID[id], efByID[id])
                              THEN Append(update, provByID[id]) ELSE update
               /\ UNCHANGED create
    /\ UNCHANGED <<provider, eightfold, dpc, provByID, efByID, todoEF, del, run,
                   prevOut, diffOthers>>

\* One iteration of `for id, pc := range provByID`, in whatever order the
\* map yields its keys.
DiffJoin ==
    /\ dpc = "join"
    /\ \E id \in todoProv :
        /\ todoProv' = todoProv \ {id}
        /\ IF id \notin DOMAIN efByID
             THEN /\ create' = Append(create, provByID[id])
                  /\ UNCHANGED update
             ELSE /\ update' = IF needsUpdate(provByID[id], efByID[id])
                                 THEN Append(update, provByID[id]) ELSE update
                  /\ UNCHANGED create
    /\ UNCHANGED <<provider, eightfold, dpc, provByID, efByID, todoEF, del, run,
                   prevOut, diffOthers>>

DiffJoinEnd ==
    /\ dpc = "join" /\ todoProv = {}
    /\ dpc' = "del"
    /\ UNCHANGED <<provider, eightfold, provByID, efByID, todoProv, todoEF, create,
                   update, del, run, prevOut, diffOthers>>

\* One iteration of `for id, efc := range efByID`.
DiffDel ==
    /\ dpc = "del"
    /\ \E id \in todoEF :
        /\ todoEF' = todoEF \ {id}
        /\ del' = IF id \in DOMAIN provByID THEN del
                  ELSE Append(del, DeleteCourse(efByID[id], id))
    /\ UNCHANGED <<provider, eightfold, dpc, provByID, efByID, todoProv, create,
                   update, run, prevOut, diffOthers>>

\* return create, update, del
DiffReturn ==
    /\ dpc = "del" /\ todoEF = {}
    /\ dpc' = "done"
    /\ UNCHANGED <<provider, eightfold, provByID, efByID, todoProv, todoEF, create,
                   update, del, run, prevOut, diffOthers>>

\* The caller keeps the result and calls Diff again with the same arguments.
DiffAgain ==
    /\ dpc = "done" /\ run = 1
    /\ prevOut' = [create |-> create, update |-> update, del |-> del]
    /\ run' = 2
    /\ dpc' = "call"
    /\ UNCHANGED <<provider, eightfold, provByID, efByID, todoProv, todoEF, create,
                   update, del, diffOthers>>

\* firstNonEmpty(e.LMSCourseID, e.SystemID), trimmed: the key of a
\* destination record
DestID(e) == TrimSpace(firstNonEmpty(e.LMSCourseID, e.SystemID))

NextDiff ==
    \/ DiffCall
    \/ DiffJoin
    \/ DiffJoinEnd
    \/ DiffDel
    \/ DiffReturn
    \/ DiffAgain

SpecDiff == InitDiff /\ [][NextDiff]_vars

\* ================================================================== claims, Part V
DiffReturned == dpc = "done"
Identity(c) == BuildSystemID(c.Source, c.SourceID)
IdsOf(sq) == { Identity(sq[k]) : k \in 1..Len(sq) }
DelIds == { del[k].LMSCourseID : k \in 1..Len(del) }

\* C15: create holds exactly the upstream records of the join map whose
\* identity the destination map lacks; delete holds exactly the destination
\* identities the upstream map lacks, each with the destination's trimmed
\* title; update holds only identities found in both maps; the three identity
\* sets are pairwise disjoint and no identity occurs twice in one of them.
C15_DiffOutputs ==
    DiffReturned =>
        /\ ElemSet(create) = { provByID[id] : id \in (DOMAIN provByID) \ (DOMAIN efByID) }
        /\ ElemSet(del) =
              { [Title |-> TrimSpace(efByID[id].Title), LMSCourseID |-> id] :
                    id \in (DOMAIN efByID) \ (DOMAIN provByID) }
        /\ IdsOf(update) \subseteq (DOMAIN provByID) \cap (DOMAIN efByID)
        /\ \A k \in 1..Len(update) : update[k] = provByID[Identity(update[k])]
        /\ IdsOf(create) \cap IdsOf(update) = {}
        /\ IdsOf(create) \cap DelIds = {}
        /\ IdsOf(update) \cap DelIds = {}
        /\ Cardinality(IdsOf(create)) = Len(create)
        /\ Cardinality(IdsOf(update)) = Len(update)
        /\ Cardinality(DelIds) = Len(del)
\* Witness: one call produced a creation, an update and a deletion whose
\* title had to be trimmed.
C15_Witness ==
    /\ DiffReturned /\ Len(create) = 1 /\ Len(update) = 1 /\ Len(del) = 1
    /\ del[1].Title = <<"O">>

\* C16: two calls with the same inputs return the same create, update and
\* delete sets whatever order the maps were iterated in, and no step of Diff
\* changes its inputs.
C16_SameSets ==
    (DiffReturned /\ run = 2) =>
        /\ ElemSet(create) = ElemSet(prevOut.create)
        /\ ElemSet(update) = ElemSet(prevOut.update)
        /\ ElemSet(del) = ElemSet(prevOut.del)
C16_InputsKept == provider' = provider /\ eightfold' = eightfold
C16_Deterministic == []C16_SameSets /\ [][C16_InputsKept]_vars
\* Witness: the second call met the keys in another order than the first and
\* returned the same sets.
C16_Witness ==
    /\ DiffReturned /\ run = 2
    /\ Len(create) = 2 /\ create # prevOut.create
    /\ ElemSet(create) = ElemSet(prevOut.create)
    /\ Len(del) = 2 /\ del # prevOut.del

\* C20: an upstream record whose sourceId is empty or blank has no identity:
\* it is not in the upstream join map, it is in none of create, update and
\* delete, and it neither matches a destination record nor keeps one from
\* being deleted.
HasSourceID(c) == TrimSpace(c.SourceID) # <<>>
C20_NoIdentity ==
    DiffReturned =>
        /\ \A id \in DOMAIN provByID : HasSourceID(provByID[id])
        /\ \A c \in ElemSet(create) \cup ElemSet(update) : HasSourceID(c)
        /\ \A id \in DOMAIN efByID :
              id \notin { Identity(provider[k]) :
                             k \in { j \in 1..Len(provider) : HasSourceID(provider[j]) } }
                 => id \in DelIds

\* The join key of a destination record as the claims put it: the primary
\* identity field when it is not blank, the fallback field otherwise, trimmed.
DestKey(c) ==
    IF TrimSpace(c.LMSCourseID) # <<>> THEN TrimSpace(c.LMSCourseID)
    ELSE TrimSpace(c.SystemID)
DestKeys == { DestKey(eightfold[k]) : k \in 1..Len(eightfold) } \ {<<>>}
LastProv(id) ==
    CHOOSE k \in 1..Len(provider) :
        /\ Identity(provider[k]) = id
        /\ \A j \in (k + 1)..Len(provider) : Identity(provider[j]) # id
LastEF(id) ==
    CHOOSE k \in 1..Len(eightfold) :
        /\ DestKey(eightfold[k]) = id
        /\ \A j \in (k + 1)..Len(eightfold) : DestKey(eightfold[j]) # id

\* C21: when several upstream records have the same identity, the record
\* found in create or update is the last of them in the input slice, and it
\* is that record which is compared against the destination; of several
\* destination records with the same identity the last one is the one
\* compared and the one whose title a deletion carries.
C21_LastWriterWins ==
    DiffReturned =>
        /\ \A c \in ElemSet(create) \cup ElemSet(update) :
              c = provider[LastProv(Identity(c))]
        /\ \A id \in IdsOf(provider) \cap DestKeys :
              (id \in IdsOf(update))
                 <=> needsUpdate(provider[LastProv(id)], eightfold[LastEF(id)])
        /\ \A k \in 1..Len(del) :
              del[k].Title = TrimSpace(eightfold[LastEF(del[k].LMSCourseID)].Title)
\* Witness: two different upstream records and two different destination
\* records, all of one identity; the first pair is alike, the update holds
\* the second upstream record.
C21_Witness ==
    /\ DiffReturned /\ Len(provider) = 2 /\ Len(eightfold) = 2
    /\ Identity(provider[1]) = Identity(provider[2]) /\ provider[1] # provider[2]
    /\ DestKey(eightfold[1]) = Identity(provider[1])
    /\ DestKey(eightfold[2]) = Identity(provider[1])
    /\ eightfold[1] # eightfold[2]
    /\ ~needsUpdate(provider[1], eightfold[1])
    /\ update = <<provider[2]>>

\* C22: every entry of del has an identity that starts with UDM+ or PLS+,
\* whatever the destination input is.
C22_DelManaged ==
    DiffReturned =>
        \A k \in 1..Len(del) :
            \/ HasPrefix(del[k].LMSCourseID, <<"U", "D", "M", "+">>)
            \/ HasPrefix(del[k].LMSCourseID, <<"P", "L", "S", "+">>)

\* C30: the join key of a destination record is its primary identity field
\* when that is not blank and its fallback field otherwise, trimmed; a record
\* with both fields blank is in the destination map under no key and in no
\* output; filterManagedEightfold keeps a record exactly when that key starts
\* with UDM+ or PLS+.
C30_DestinationKey ==
    DiffReturned =>
        /\ DOMAIN efByID = DestKeys
        /\ \A id \in DOMAIN efByID : DestKey(efByID[id]) = id
        /\ DelIds = DestKeys \ IdsOf(provider)
        /\ IdsOf(update) \subseteq DestKeys
        /\ \A k \in 1..Len(eightfold) :
              (eightfold[k] \in ElemSet(filterManagedEightfold(eightfold)))
                 <=> \/ HasPrefix(DestKey(eightfold[k]), <<"U", "D", "M", "+">>)
                     \/ HasPrefix(DestKey(eightfold[k]), <<"P", "L", "S", "+">>)
\* Witness: a record with a blank primary field was joined and deleted under
\* its trimmed fallback field, beside a record with no identity at all.
C30_Witness ==
    /\ DiffReturned /\ Len(eightfold) = 2
    /\ TrimSpace(eightfold[1].LMSCourseID) = <<>> /\ eightfold[1].LMSCourseID # <<>>
    /\ eightfold[1].SystemID # TrimSpace(eightfold[1].SystemID)
    /\ DestKey(eightfold[2]) = <<>>
    /\ Len(del) = 1 /\ del[1].LMSCourseID = TrimSpace(eightfold[1].SystemID)

\* ================================================================== claims, provider adapters
\* The native id of record r of a provider's catalog, as text.
NativeID(f, r) ==
    IF f = "udemy" THEN Itoa(r)
    ELSE LET n == CourseNode(r)
         IN IF n.IDNum > 0 THEN Itoa(n.IDNum)
            ELSE IF TrimSpace(n.ID) # <<>> THEN TrimSpace(n.ID) ELSE TrimSpace(n.Slug)
NativePrefix(f) == IF f = "udemy" THEN <<"U", "D", "M", "+">> ELSE <<"P", "L", "S", "+">>
AdapterReturned == PageReturned /\ pgFn \in {"udemy", "pluralsight"} /\ pgRet.err = 0

\* C23: every course an adapter returns has the native id of a catalog record
\* as SourceID, without identity prefix, and its join key
\* BuildSystemID(Source, SourceID) is UDM+n for the Udemy course n and PLS+n
\* for the Pluralsight course n.
C23_RawSourceID ==
    AdapterReturned =>
        \A c \in ElemSet(pgRet.elems) :
            \E r \in 1..SrvTotal :
                /\ c.SourceID = NativeID(pgFn, r)
                /\ BuildSystemID(c.Source, c.SourceID) = NativePrefix(pgFn) \o NativeID(pgFn, r)

\* ================================================================== claims, pagination idioms
\* A step of FetchEightfoldCourses in which ListCoursesPage answered.
EFAnswered ==
    /\ pgFn = "FetchEightfoldCourses" /\ pgPc = "loop"
    /\ fetched' # fetched /\ srv.failAt # page'

\* C24: in FetchEightfoldCourses the offset of the request after response k
\* is pageStartIndex + pageTotalCount of that response, and no request
\* follows a response with totalCount <= 0, with pageTotalCount <= 0, with
\* an empty page, or whose computed offset reaches totalCount (the loop has
\* returned, or the page cap ends it before the next request).
C24_Step ==
    EFAnswered =>
        LET r == ListCoursesPage(startIndex)
            next == r.meta.PageStartIndex + r.meta.PageTotalCount
        IN /\ pgPc' = "loop" => startIndex' = next
           /\ (\/ r.meta.TotalCount <= 0
               \/ r.meta.PageTotalCount <= 0
               \/ Len(r.rows) = 0
               \/ next >= r.meta.TotalCount)
                 => (pgPc' = "done" \/ (maxPages > 0 /\ page' >= maxPages))
C24_OffsetMeta == [][C24_Step]_vars

\* C25: every request of the offset/meta idiom that carries a page size
\* (FetchEightfoldCourses through ListCoursesPage, ListAllEmployees) carries
\* one of at most 100, whatever limit or hint the caller passed.
C25_Ceiling ==
    pgFn \in {"FetchEightfoldCourses", "ListAllEmployees"} =>
        \A k \in 1..Len(reqs) : reqs[k].link = "offset" => reqs[k].size <= 100

\* C26: every request of pluralsight Provider.ListCourses asks for
\* min(First, 8000) nodes, 8000 when First <= 0; the first request has no
\* cursor and request k+1 has the endCursor of response k; a request is
\* followed by another only if its response said hasNextPage.
C26_Cursor ==
    pgFn = "pluralsight" =>
        /\ \A k \in 1..Len(reqs) :
              /\ reqs[k].link = "cursor"
              /\ reqs[k].size = IF sizeArg <= 0 THEN 8000
                                ELSE IF sizeArg < 8000 THEN sizeArg ELSE 8000
              /\ reqs[k].n = IF k = 1 THEN 0 ELSE PSPage(reqs[k - 1].n).EndCursor
        /\ \A k \in 1..(Len(reqs) - 1) :
              srv.failAt # k /\ PSPage(reqs[k].n).HasNextPage
        /\ (PageReturned /\ stopBy = "signal") =>
              ~PSPage(reqs[Len(reqs)].n).HasNextPage
\* Witness: First above the maximum; three requests, the third with the
\* second response's cursor, ended by hasNextPage = false.
C26_Witness ==
    /\ pgFn = "pluralsight" /\ PageReturned /\ stopBy = "signal"
    /\ sizeArg > 8000 /\ Len(reqs) = 3
    /\ reqs[3] = [link |-> "cursor", n |-> 2, size |-> 8000]

\* What the server sends as `next` with page p: the link to the page after
\* it, 0 (empty) with the last page.
SrvNext(p) == IF p < srv.pages THEN p ELSE 0
\* The page a request asks for.
PageOfReq(q) ==
    IF q.link = "next" THEN q.n + 1
    ELSE IF q.link = "built" /\ q.n > 0 THEN q.n
    ELSE 1

\* C27: in the Udemy course listing and in the results/next branch of
\* ListAllEmployees every request after the first goes to the `next` link of
\* the response before it, and paging that no failure and no page cap ended
\* stopped at a response whose `next` is empty.
C27_NextLink ==
    (pgFn = "udemy" \/ (pgFn = "ListAllEmployees" /\ srv.mode = 2)) =>
        /\ \A k \in 2..Len(reqs) :
              /\ reqs[k].link = "next"
              /\ reqs[k].n = SrvNext(PageOfReq(reqs[k - 1]))
              /\ reqs[k].n # 0
        /\ (PageReturned /\ pgRet.err = 0 /\ stopBy # "cap") =>
              SrvNext(PageOfReq(reqs[Len(reqs)])) = 0

\* ================================================================== Part VI
\* ------------------------------------------------------------------ udemy fetchPageWithRetry
fetchMaxAttempts == 12
FetchBaseMs == 1000
FetchCapMs == 45000

Str(a, b, c, d, e, f) == <<a, b, c, d, e, f>>
\* Bodies of a 200 response: an object, null, pages that open as the test of
\* looksLikeHTML has them, and texts that are neither.
BodyObject == <<"{", "}">>
BodyNull == <<"n", "u", "l", "l">>
\* an error page of a proxy that names the HTTP/2 frame
BodyHtmlGoAway ==
    <<"<", "h", "t", "m", "l", ">", "G", "O", "A", "W", "A", "Y">>
\* the body of a 503 of a gateway whose upstream went away
BodyConnClosed ==
    <<"u", "p", "s", "t", "r", "e", "a", "m", " ", "c", "o", "n", "n", "e",
      "c", "t", "i", "o", "n", " ", "c", "l", "o", "s", "e", "d">>
FetchBodies ==
    {BodyObject, BodyNull,
     Str("<", "h", "t", "m", "l", ">"), Str("<", "!", "D", "O", "C", "T"),
     Str("<", "h", "t", "m", " ", "x"), <<"<", "h", "t", "m">>,
     <<" ", "<", "h", "t", "m", "l", ">">>, Str("<", "H", "T", "M", "L", ">"),
     <<"{">>, <<>>, BodyHtmlGoAway}
\* json.Unmarshal(body, &out) into a struct, on these bodies
UnmarshalOK(body) == body \in {BodyObject, BodyNull}
\* Mutant: no body looks like HTML.
looksLikeHTML_Never(b) == FALSE
looksLikeHTML(b) ==
    IF Len(b) = 0 THEN FALSE
    ELSE Len(b) >= 6 /\ \/ SubSeq(b, 1, 6) = Str("<", "h", "t", "m", "l", ">")
                        \/ SubSeq(b, 1, 5) = <<"<", "!", "D", "O", "C">>
                        \/ SubSeq(b, 1, 4) = <<"<", "h", "t", "m">>

\* The Retry-After header: absent, a number of seconds, a date that many
\* seconds from now, or another text. The result is in ms.
FetchHeaders ==
    {[kind |-> "none", v |-> 0], [kind |-> "secs", v |-> 2], [kind |-> "secs", v |-> -10],
     [kind |-> "date", v |-> 3], [kind |-> "date", v |-> -3], [kind |-> "text", v |-> 0]}
parseRetryAfter(h) ==
    IF h.kind = "none" THEN 0
    ELSE IF h.kind = "secs" /\ h.v >= 0 THEN h.v * 1000
    ELSE IF h.kind = "date" THEN (IF h.v < 0 THEN 0 ELSE h.v * 1000)
    ELSE 0

FetchStatuses == {301, 400, 404, 408, 425, 429, 500, 503, 599}
\* What one exchange can meet: a transport error (with what isNetRetryable
\* says of it and whether its text names GOAWAY or "connection closed"), a
\* status other than 200 with its body, or a 200 with a body.
FetchOutcomes ==
    [type : {"net"}, retryable : BOOLEAN, goaway : BOOLEAN]
    \cup [type : {"status"}, code : FetchStatuses, header : FetchHeaders,
          body : {<<>>, BodyConnClosed}]
    \cup [type : {"body"}, body : FetchBodies]
CtxCanceled == [type |-> "net", retryable |-> FALSE, goaway |-> FALSE]

\* fetchPageOnce: (out, retryAfter, err); retryAfter is in ms, -1 with a
\* failure that is not to be retried and with success.
fetchPageOnce(o) ==
    IF o.type = "net"
      THEN [ok |-> FALSE, retryAfter |-> IF o.retryable THEN 0 ELSE -1]
    ELSE IF o.type = "status"
      THEN IF o.code = 429 \/ (o.code >= 500 /\ o.code <= 599)
             THEN [ok |-> FALSE, retryAfter |-> parseRetryAfter(o.header)]
             ELSE [ok |-> FALSE, retryAfter |-> -1]
    ELSE IF UnmarshalOK(o.body) THEN [ok |-> TRUE, retryAfter |-> -1]
    ELSE IF looksLikeHTML(o.body) THEN [ok |-> FALSE, retryAfter |-> 0]
    ELSE [ok |-> FALSE, retryAfter |-> -1]

\* The texts fetchPageOnce gives its errors; the one of json.Unmarshal is
\* the one it has for a body that opens with "<".
StrGoAway ==
    <<"G", "O", "A", "W", "A", "Y">>
StrConnClosed ==
    <<"c", "o", "n", "n", "e", "c", "t", "i", "o", "n", " ", "c", "l", "o",
      "s", "e", "d">>
StatusErrPrefix ==
    <<"u", "d", "e", "m", "y", " ", "l", "i", "s", "t", " ", "f", "a", "i",
      "l", "e", "d", ":", " ", "s", "t", "a", "t", "u", "s", "=">>
BodyEq ==
    <<" ", "b", "o", "d", "y", "=">>
HtmlErrPrefix ==
    <<"u", "d", "e", "m", "y", ":", " ", "j", "s", "o", "n", " ", "p", "a",
      "r", "s", "e", " ", "e", "r", "r", "o", "r", " ", "b", "u", "t", " ",
      "l", "o", "o", "k", "s", " ", "l", "i", "k", "e", " ", "H", "T", "M",
      "L", " ", "(", "r", "e", "t", "r", "y", "a", "b", "l", "e", ")", ":",
      " ">>
JsonErrLt ==
    <<"i", "n", "v", "a", "l", "i", "d", " ", "c", "h", "a", "r", "a", "c",
      "t", "e", "r", " ", "'", "<", "'", " ", "l", "o", "o", "k", "i", "n",
      "g", " ", "f", "o", "r", " ", "b", "e", "g", "i", "n", "n", "i", "n",
      "g", " ", "o", "f", " ", "v", "a", "l", "u", "e">>
\* err.Error() of a retryable failure, as far as its text is built from the
\* response
FetchErrText(o) ==
    IF o.type = "status"
      THEN StatusErrPrefix \o Itoa(o.code) \o BodyEq \o o.body
      ELSE HtmlErrPrefix \o JsonErrLt \o BodyEq \o o.body
\* isGoAway := strings.Contains(err.Error(), "GOAWAY") ||
\*             strings.Contains(err.Error(), "connection closed")
isGoAwayErr(o) ==
    IF o.type = "net" THEN o.goaway
    ELSE Contains(FetchErrText(o), StrGoAway)
            \/ Contains(FetchErrText(o), StrConnClosed)

\* The sleep before the next attempt, in ms; jitter is rand.Intn(1000).
FetchSleepFor(att, retryAfter, isGoAway, jitter) ==
    IF retryAfter # 0 THEN retryAfter
    ELSE LET raw == FetchBaseMs * Pow2(att - 1)
             dbl == IF isGoAway /\ att > 1 THEN raw * 2 ELSE raw
             capped == IF dbl > FetchCapMs THEN FetchCapMs ELSE dbl
         IN capped + jitter
FetchJitter == {0, 999}

\* pluralsight listCoursesPageOnce: the `retryable` it returns for a status
\* outside 200..299.
listCoursesPageOnceStatus(code) == code = 429 \/ (code >= 500 /\ code <= 599)

FetchReturn(ok, err) ==
    /\ fpc' = "done"
    /\ fRet' = [type |-> "ret", ok |-> ok, err |-> err]

fetchOthers == <<parVars, retryVars, pageVars, diffVars, pureVars>>

InitFetch ==
    /\ ParOff /\ RetryOff /\ PageOff /\ DiffOff /\ PureOff
    /\ fpc = "call" /\ fAttempt = 0 /\ fLast = NoFetch /\ fSleep = 0
    /\ fCtxDone \in BOOLEAN /\ fRet = NoFetch /\ fTries = 0 /\ fSleeps = 0

\* fetchPageWithRetry up to its loop.
FetchCall ==
    /\ fpc = "call"
    /\ fAttempt' = 1
    /\ fpc' = "once"
    /\ UNCHANGED <<fLast, fSleep, fCtxDone, fRet, fTries, fSleeps, fetchOthers>>

\* One pass through the loop body up to the select: fetchPageOnce and the
\* choice of the sleep. With a cancelled context the exchange fails with the
\* context's error.
FetchOnce ==
    /\ fpc = "once"
    /\ \E o \in FetchOutcomes, jitter \in FetchJitter :
        /\ fCtxDone => o = CtxCanceled
        /\ LET r == fetchPageOnce(o)
               isGoAway == isGoAwayErr(o)
           IN /\ fLast' = o
              /\ fTries' = fTries + 1
              /\ IF r.ok
                   THEN /\ FetchReturn(TRUE, NoFetch)
                        /\ UNCHANGED <<fSleep, fSleeps>>
                 ELSE IF r.retryAfter < 0
                   THEN /\ FetchReturn(FALSE, o)
                        /\ UNCHANGED <<fSleep, fSleeps>>
                 ELSE /\ fSleep' = FetchSleepFor(fAttempt, r.retryAfter, isGoAway, jitter)
                      /\ fSleeps' = fSleeps + 1
                      /\ fpc' = "sleep"
                      /\ UNCHANGED fRet
    /\ UNCHANGED <<fAttempt, fCtxDone, fetchOthers>>

\* `case <-time.After(sleep)`: the next attempt, or `return nil, lastErr`
\* after the last one.
FetchTimer ==
    /\ fpc = "sleep"
    /\ fSleep' = 0
    /\ IF fAttempt < fetchMaxAttempts
         THEN /\ fAttempt' = fAttempt + 1
              /\ fpc' = "once"
              /\ UNCHANGED fRet
         ELSE /\ FetchReturn(FALSE, fLast)
              /\ UNCHANGED fAttempt
    /\ UNCHANGED <<fLast, fCtxDone, fTries, fSleeps, fetchOthers>>

\* `case <-ctx.Done()`
FetchAbort ==
    /\ fpc = "sleep" /\ fCtxDone
    /\ fSleep' = 0
    /\ FetchReturn(FALSE, [type |-> "ctx"])
    /\ UNCHANGED <<fAttempt, fLast, fCtxDone, fTries, fSleeps, fetchOthers>>

\* The caller, or the failure of another page, cancels the context.
FetchCancel ==
    /\ fpc \in {"once", "sleep"} /\ ~fCtxDone
    /\ fCtxDone' = TRUE
    /\ UNCHANGED <<fpc, fAttempt, fLast, fSleep, fRet, fTries, fSleeps, fetchOthers>>

NextFetch ==
    \/ FetchCall
    \/ FetchOnce
    \/ FetchTimer
    \/ FetchAbort
    \/ FetchCancel

SpecFetch == InitFetch /\ [][NextFetch]_vars

\* ================================================================== claims, Part VI
\* the exchange of this step met a 200 whose body did not parse
MalformedNow == fpc = "once" /\ fTries' = fTries + 1 /\ fLast'.type = "body"
                   /\ fLast'.body \notin {<<"{", "}">>, <<"n", "u", "l", "l">>}
HtmlLike(b) ==
    Len(b) >= 6 /\ SubSeq(b, 1, 4) \in {<<"<", "h", "t", "m">>, <<"<", "!", "D", "O">>}
\* the exchange before this one met a body that looks like HTML: this one is
\* its retry
RetryOfHtml == fLast.type = "body" /\ HtmlLike(fLast.body)

\* C28: a 200 response whose body fails JSON parsing ends fetchPageWithRetry
\* at once, unless the body looks like an HTML page: then the page is tried
\* once more, and a second HTML body in that one additional attempt ends the
\* fetch.
C28_Terminal ==
    MalformedNow =>
        IF HtmlLike(fLast'.body) /\ ~RetryOfHtml THEN fpc' = "sleep"
        ELSE fpc' = "done" /\ ~fRet'.ok
C28_Malformed == [][C28_Terminal]_vars

\* ================================================================== claims, needsUpdate
C29_Text(s) == ToLower(TrimSpace(s))
C29_TextRule(p, e, f) == C29_Text(e[f]) # <<>> /\ C29_Text(e[f]) # C29_Text(p[f])
C29_TextFields == {"Title", "Description", "CourseURL", "Category", "Difficulty",
                   "PublishedDate", "ImageURL"}

\* C29: needsUpdate is true exactly when some text field of the destination
\* is non-empty after trimming and lower-casing and differs from the
\* upstream's, or the normalized destination language is non-empty and
\* differs, or both durations are positive and differ by more than 0.01 h,
\* or both normalized statuses are non-empty and differ. An empty upstream
\* status is never the reason of an update; an empty upstream title against
\* a non-empty destination title is one.
C29_NeedsUpdateExact ==
    Applied("needsUpdate") =>
        LET p == pin.p
            e == pin.e
        IN /\ pout.result =
                 (\/ \E f \in C29_TextFields : C29_TextRule(p, e, f)
                  \/ /\ normLang(e.Language) # <<>>
                     /\ normLang(e.Language) # normLang(p.Language)
                  \/ /\ p.DurationHours > 0 /\ e.DurationHours > 0
                     /\ AbsDiff(p.DurationHours, e.DurationHours) > 10
                  \/ /\ C29_Text(p.Status) # <<>> /\ C29_Text(e.Status) # <<>>
                     /\ C29_Text(p.Status) # C29_Text(e.Status))
           /\ C29_Text(p.Status) = <<>> => pout.changed # "Status"
           /\ (C29_Text(p.Title) = <<>> /\ C29_Text(e.Title) # <<>>) => pout.result

\* ================================================================== claims, sleepBackoff
\* x - y on the 64-bit pattern
DSub(x, y) ==
    DAdd(DAdd(x, [a |-> TopLimb - 1 - y.a, b |-> Limb - 1 - y.b, c |-> Limb - 1 - y.c]),
         DFromInt(1))
DLeq(x, y) == ~DLess(y, x)
\* a backoff sleep was chosen with no Retry-After, under a configuration
\* with 0 < baseDelay <= maxDelay
BackoffChosen ==
    /\ wait.after # "none" /\ DLeqZero(wait.retryAfter)
    /\ ~DLeqZero(cfg.BaseDelay) /\ DLeq(cfg.BaseDelay, cfg.MaxDelay)
BeforeJitter == DSub(wait.dur, DMul(Millisecond, wait.jitter))

\* C31: when no Retry-After applies and 0 < baseDelay <= maxDelay, the wait
\* sleepBackoff chooses before jitter lies in [baseDelay, maxDelay] and is
\* not below the one of the attempt before; the jitter is in 0..399 ms. This
\* also when baseDelay * 2^(n-1) leaves the 64-bit range.
C31_BackoffBounds ==
    BackoffChosen =>
        /\ DLeq(cfg.BaseDelay, BeforeJitter)
        /\ DLeq(BeforeJitter, cfg.MaxDelay)
        /\ wait.attempt > 1 =>
              DLeq(SleepFor(wait.attempt - 1, cfg.BaseDelay, cfg.MaxDelay, DZero, 0),
                   BeforeJitter)
        /\ wait.jitter >= 0 /\ wait.jitter < 400

\* ================================================================== claims, udemy Client.ListCourses
ClientReturned == pgFn = "udemy" /\ pgPc \in {"provider", "done"}

\* C32: when a page worker fails the shared context is cancelled and its
\* error is recorded: the first error recorded under a context that was not
\* cancelled is the failure of a page, and recording it cancels; a recorded
\* error is never replaced, neither by a later failure nor by the errors of
\* the cancellation; once the dispatch loop has seen the cancellation and
\* left, no worker is started; and Client.ListCourses returns that first
\* error together with the records appended so far.
C32_Recorded ==
    pgFn = "udemy" =>
        /\ firstErr # 0 => cancelled
        /\ (ClientReturned /\ firstErr # 0) =>
              clientRet = [isNil |-> FALSE, elems |-> out, err |-> firstErr]
C32_Step ==
    pgFn = "udemy" =>
        /\ firstErr # 0 => firstErr' = firstErr
        /\ (firstErr = 0 /\ firstErr' # 0 /\ ~cancelled) =>
              (firstErr' = srv.failAt /\ cancelled')
        /\ (firstErr = 0 /\ firstErr' # 0 /\ cancelled) =>
              firstErr' \in {srv.failAt, ErrCtx, ErrFetchCtx}
        /\ cancelled => cancelled'
        /\ pgPc \in {"wait", "provider", "done"} => inflight' \subseteq inflight
C32_FailFast == []C32_Recorded /\ [][C32_Step]_vars
\* Witness: page 2 failed, another page was appended, a worker gave up on
\* the cancellation, and the client returned error and records.
C32_Witness ==
    /\ ClientReturned /\ pgPc = "provider" /\ firstErr = 2 /\ srv.pages = 3
    /\ clientRet.err = 2 /\ fetched = {1, 3}
    /\ Len(clientRet.elems) = 2 * PageRows

\* ================================================================== claims, cancellation in Part I
\* the errors of the invocations that returned
CompletedErrs == { ItemFuncErr(k, items[k]) : k \in { j \in failing : calls[j] = 1 } }

\* C33: after a cancellation in the middle of a run ProcessParallel keeps the
\* completed work: the slot of every index whose itemFunc returned holds that
\* result, index 0 included, and the error list holds exactly the errors of
\* the completed invocations.
C33_CompletedKept ==
    (Returned /\ fn = "ProcessParallel" /\ ctxDone /\ ~ctxAtCall) =>
        /\ \A k \in DOMAIN items :
              calls[k] = 1 => resultList[k] = ItemFuncResult(k, items[k])
        /\ Len(errors.elems) = Cardinality({ j \in failing : calls[j] = 1 })
        /\ ElemSet(errors.elems) = CompletedErrs

\* C34: ProcessParallel and ForEach return whenever the cancellation comes,
\* no worker's send finds the result channel full, and every worker
\* goroutine ends.
C34_SendNeverBlocks == Len(results) <= Len0(items)
C34_WorkersEnd == running = {} /\ idle = 0 /\ exited = maxWorkers
C34_Terminates ==
    /\ []C34_SendNeverBlocks
    /\ <>Returned
    /\ <>[]C34_WorkersEnd
\* Witness: a ForEach cancelled in the middle returned, items were skipped
\* and the two workers are gone.
C34_Witness ==
    /\ Returned /\ fn = "ForEach" /\ ctxDone /\ ~ctxAtCall
    /\ maxWorkers = 2 /\ exited = 2
    /\ \E k \in DOMAIN items : calls[k] = 1
    /\ \E k \in DOMAIN items : calls[k] = 0

\* the records of the pages P, page after page
RECURSIVE RecordsOf(_)
RecordsOf(P) ==
    IF P = {} THEN <<>>
    ELSE LET p == CHOOSE q \in P : \A r \in P : q <= r
         IN PageRecords(p) \o RecordsOf(P \ {p})
CountIn(sq, x) == Cardinality({ k \in 1..Len(sq) : sq[k] = x })
\* the pool size the environment asks for
WorkersAsked ==
    IF workersEnv \in {<<"1">>} THEN 1
    ELSE IF workersEnv = <<" ", "2">> THEN 2
    ELSE IF workersEnv = <<"+", "1", "0">> THEN 10
    ELSE IF workersEnv = BigNumeral THEN 2000000001
    ELSE 4

\* C35: Client.ListCourses returns the records of page 1 and of every page
\* whose fetch succeeded, each exactly once; it returns only when every
\* worker it started has finished; and never more than `workers` page
\* fetches are in flight.
C35_Gathered ==
    pgFn = "udemy" =>
        /\ Cardinality(inflight) <= WorkersAsked
        /\ (ClientReturned /\ 1 \in fetched) =>
              /\ inflight = {} /\ sent = {} /\ ending = {} /\ leaving = {}
              /\ Len(clientRet.elems) = Len(RecordsOf(fetched))
              /\ \A x \in ElemSet(RecordsOf(fetched)) : CountIn(clientRet.elems, x) = 1
              /\ (clientRet.err = 0 /\ stopBy # "cancel") => fetched = 1..totalPages
\* Witness: with a pool of one the pages came one at a time and all three
\* were returned.
C35_Witness ==
    /\ ClientReturned /\ workersEnv = <<"1">> /\ clientRet.err = 0
    /\ fetched = {1, 2, 3} /\ Len(clientRet.elems) = 3 * PageRows

\* ================================================================== claims, the last attempt
\* C36: fetchPageWithRetry does not wait after its last permitted attempt:
\* once the twelfth exchange has been made it is not sleeping, it has slept
\* once less than it has tried, and what it returns is the outcome of that
\* exchange, whatever happens to the context afterwards.
C36_LastAttempt ==
    fTries = fetchMaxAttempts =>
        /\ fpc # "sleep"
        /\ fSleeps = fTries - 1
        /\ fpc = "done" => (fRet.ok \/ fRet.err = fLast)

\* ================================================================== claims, status classification
\* the exchange of this step met a status outside 200..299
StatusNow == fpc = "once" /\ fTries' = fTries + 1 /\ fLast'.type = "status"

\* C37: the provider loops treat a status outside 200..299 as retryable
\* exactly when isRetryableStatus does under DefaultRetryConfig: 429, 408,
\* 425 and every 5xx are retried, every other status ends the fetch.
C37_Step ==
    StatusNow =>
        LET code == fLast'.code
            shared == isRetryableStatus(code, DefaultRetryConfig)
        IN /\ (fpc' = "sleep") <=> shared
           /\ (fpc' = "done") <=> ~shared
           /\ listCoursesPageOnceStatus(code) <=> shared
C37_SameClassification == [][C37_Step]_vars

\* ================================================================== claims, termination of the offset loop
\* a backend that reports a positive totalCount and has rows, asked with
\* maxPages = 0 and answering every request
C38_Case ==
    /\ pgFn = "FetchEightfoldCourses" /\ maxPagesArg = 0
    /\ srv.mode \in {1, 3} /\ srv.pages >= 1 /\ srv.failAt = 0
AllRows == [k \in 1..SrvTotal |-> RawRow(k)]

\* C38: FetchEightfoldCourses with maxPages = 0 returns against every
\* backend that reports a positive totalCount and non-empty pages: the
\* offsets it requests increase strictly, so no page is requested twice and
\* no page of records is appended twice.
C38_Increasing ==
    C38_Case =>
        /\ \A j, k \in 1..Len(reqs) : j < k => reqs[j].n < reqs[k].n
        /\ Len(out) <= Len(filterManagedEightfold(mapEightfoldRows(AllRows)))
C38_Terminates == (C38_Case => <>PageReturned) /\ []C38_Increasing

\* ================================================================== claims, the fixpoint of Diff
\* The destination D' of the claim: the deleted identities are gone, the
\* records of the updated identities carry the upstream values, and every
\* created record has been added under its BuildSystemID identity with the
\* upstream values.
C39_WithUpstream(uc, sys, lms) ==
    [SystemID |-> sys, LMSCourseID |-> lms, Title |-> uc.Title,
     Description |-> uc.Description, CourseURL |-> uc.CourseURL,
     Language |-> uc.Language, Category |-> uc.Category,
     Difficulty |-> uc.Difficulty, DurationHours |-> uc.DurationHours,
     PublishedDate |-> uc.PublishedDate, ImageURL |-> uc.ImageURL,
     Status |-> uc.Status]
C39_Applied(dest, cr, up, dl) ==
    LET gone == { dl[k].LMSCourseID : k \in 1..Len(dl) }
        Kept(e) == DestID(e) \notin gone
        kept == SelectSeq(dest, Kept)
        upd(e) == IF \E k \in 1..Len(up) :
                        BuildSystemID(up[k].Source, up[k].SourceID) = DestID(e)
                    THEN LET k == CHOOSE k \in 1..Len(up) :
                                    BuildSystemID(up[k].Source, up[k].SourceID) = DestID(e)
                         IN C39_WithUpstream(up[k], e.SystemID, e.LMSCourseID)
                    ELSE e
    IN [k \in 1..Len(kept) |-> upd(kept[k])]
       \o [k \in 1..Len(cr) |->
             C39_WithUpstream(cr[k], <<>>, BuildSystemID(cr[k].Source, cr[k].SourceID))]
\* What Diff returns for the upstream of this run and a destination d, as
\* sets of identities: the three loops of Diff over its two maps.
C39_DiffOf(d) ==
    LET pm == ProvMap(provider, Len(provider))
        em == EFMap(d, Len(d))
    IN [create |-> (DOMAIN pm) \ (DOMAIN em),
        update |-> { id \in (DOMAIN pm) \cap (DOMAIN em) : needsUpdate(pm[id], em[id]) },
        del    |-> (DOMAIN em) \ (DOMAIN pm)]
C39_Second == C39_DiffOf(C39_Applied(eightfold, create, update, del))

\* C39: if the destination D' is obtained from D by applying what Diff
\* returned (the created records added under their BuildSystemID identity
\* with the upstream values, the updated ones overwritten with them, the
\* deleted identities removed), then Diff of the same upstream and D'
\* has nothing to create, update or delete.
C39_Fixpoint ==
    (DiffReturned /\ run = 1) =>
        LET second == C39_Second
        IN second.create = {} /\ second.update = {} /\ second.del = {}
\* Witness: the call had something to create, to update and to delete, and
\* Diff of the destination with all of it applied has nothing.
C39_Witness ==
    /\ DiffReturned /\ run = 1
    /\ create # <<>> /\ update # <<>> /\ del # <<>>
    /\ C39_Second = [create |-> {}, update |-> {}, del |-> {}]

\* ================================================================== claims, identities
\* a (source, sourceId) pair after normalization
NormPair(source, sourceID) == <<ToLower(TrimSpace(source)), TrimSpace(sourceID)>>

\* C40: two (source, sourceId) pairs that differ after normalization (the
\* source trimmed and lower-cased, the sourceId trimmed) never get the same
\* identity from BuildSystemID.
C40_NoCollision ==
    Applied("BuildSystemID") =>
        \A s \in Sources, d \in SourceIDs :
            NormPair(s, d) # NormPair(pin.source, pin.sourceID)
                => BuildSystemID(s, d) # pout

====
